---------------------------- MODULE Spec2Model ----------------------------
(***************************************************************************)
(* Label normalisation engine of scandit-poc: the structured-field mapper  *)
(* (scanditFieldsToLabelJson), the expiry normalisers and the GS1 decoder. *)
(*                                                                         *)
(* A JavaScript string is a sequence of one-character strings, so that     *)
(* trimming, slicing and regular-expression matching are computed, not     *)
(* assumed.  The group separator (char code 29) is the symbol "<GS>".      *)
(***************************************************************************)
EXTENDS Integers, Sequences, FiniteSets, TLC

(***************************************************************************)
(* Characters and the JavaScript string primitives the code uses.          *)
(***************************************************************************)
Digit == {"0","1","2","3","4","5","6","7","8","9"}

UpperSeq == <<"A","B","C","D","E","F","G","H","I","J","K","L","M",
              "N","O","P","Q","R","S","T","U","V","W","X","Y","Z">>

LowerSeq == <<"a","b","c","d","e","f","g","h","i","j","k","l","m",
              "n","o","p","q","r","s","t","u","v","w","x","y","z">>

Upper == {UpperSeq[k] : k \in 1..26}

Lower == {LowerSeq[k] : k \in 1..26}

Alpha == Upper \cup Lower

AlNum == Alpha \cup Digit

\* \w of a JavaScript regular expression
WordCh == AlNum \cup {"_"}

\* \s of a JavaScript regular expression, and what trim() strips
Space == {" ", "\t", "\n", "\r"}

GS == "<GS>"

ToUpperChar(c) == IF c \in Lower THEN UpperSeq[CHOOSE k \in 1..26 : LowerSeq[k] = c] ELSE c

ToLowerChar(c) == IF c \in Upper THEN LowerSeq[CHOOSE k \in 1..26 : UpperSeq[k] = c] ELSE c

toUpperCase(s) == [k \in 1..Len(s) |-> ToUpperChar(s[k])]

\* s.slice(a, b) with 0-based a, exclusive b, both within 0..
slice(s, a, b) == SubSeq(s, a + 1, IF b > Len(s) THEN Len(s) ELSE b)

RECURSIVE TrimStart(_)
TrimStart(s) == IF s # <<>> /\ Head(s) \in Space THEN TrimStart(Tail(s)) ELSE s

RECURSIVE TrimEnd(_)
TrimEnd(s) == IF s # <<>> /\ s[Len(s)] \in Space THEN TrimEnd(SubSeq(s, 1, Len(s) - 1)) ELSE s

trim(s) == TrimEnd(TrimStart(s))

\* s.replace(/\s/g, '')
StripWs(s) == SelectSeq(s, LAMBDA c : c \notin Space)

padStart2(s) == IF Len(s) < 2 THEN <<"0">> \o s ELSE s

DigitVal(c) == CHOOSE n \in 0..9 : <<"0","1","2","3","4","5","6","7","8","9">>[n + 1] = c

\* parseInt(s, 10) of a string of digits
RECURSIVE parseInt(_)
parseInt(s) == IF s = <<>> THEN 0 ELSE 10 * parseInt(SubSeq(s, 1, Len(s) - 1)) + DigitVal(s[Len(s)])

\* String(n) of a natural number
RECURSIVE NumToStr(_)
NumToStr(n) ==
    IF n < 10 THEN << <<"0","1","2","3","4","5","6","7","8","9">>[n + 1] >>
    ELSE NumToStr(n \div 10) \o << <<"0","1","2","3","4","5","6","7","8","9">>[(n % 10) + 1] >>

\* lines.join('\n')
RECURSIVE JoinNl(_)
JoinNl(ls) ==
    IF ls = <<>> THEN <<>>
    ELSE IF Len(ls) = 1 THEN ls[1]
    ELSE ls[1] \o <<"\n">> \o JoinNl(Tail(ls))

(***************************************************************************)
(* Regular expressions.  A pattern is a tree; Match gives, in the order a  *)
(* backtracking matcher tries them, every way the pattern matches at a     *)
(* position, each with the end position and the captured groups.  exec     *)
(* and match take the first way at the leftmost position.                  *)
(***************************************************************************)
NCap == 4

Inf == 99

NoCaps == [k \in 1..NCap |-> <<0, 0>>]

Ch(cs) == [t |-> "set", cs |-> cs]

Cat(rs) == [t |-> "cat", rs |-> rs]

Alt(rs) == [t |-> "alt", rs |-> rs]

Rep(r, lo, hi) == [t |-> "rep", r |-> r, lo |-> lo, hi |-> hi, greedy |-> TRUE]

RepLazy(r, lo, hi) == [t |-> "rep", r |-> r, lo |-> lo, hi |-> hi, greedy |-> FALSE]

Opt(r) == Rep(r, 0, 1)

Star(r) == Rep(r, 0, Inf)

Plus(r) == Rep(r, 1, Inf)

Cap(k, r) == [t |-> "cap", k |-> k, r |-> r]

Bol == [t |-> "bol"]

Eol == [t |-> "eol"]

Wb == [t |-> "wb"]

\* a literal, case-sensitive
Lit(s) == Cat([k \in 1..Len(s) |-> Ch({s[k]})])

\* a literal under the i flag
LitI(s) == Cat([k \in 1..Len(s) |-> Ch({ToUpperChar(s[k]), ToLowerChar(s[k])})])

IsWordAt(s, i) == i >= 1 /\ i <= Len(s) /\ s[i] \in WordCh

\* the ways ms, each with group k set to what it matched from position i
Captured(ms, k, i) ==
    [j \in 1..Len(ms) |-> [e |-> ms[j].e, c |-> [ms[j].c EXCEPT ![k] = <<i, ms[j].e>>]]]

\* a greedy repetition tries one more iteration first, a lazy one tries to stop first
RepOrder(greedy, more, stop) == IF greedy THEN more \o stop ELSE stop \o more

RECURSIVE Match(_, _, _, _)
RECURSIVE MatchCat(_, _, _, _)
RECURSIVE MatchCatOver(_, _, _, _)
RECURSIVE MatchAlt(_, _, _, _, _)
RECURSIVE MatchRep(_, _, _, _, _)
RECURSIVE MatchRepOver(_, _, _, _, _)

Match(r, s, i, c) ==
    CASE r.t = "set" -> IF i <= Len(s) /\ s[i] \in r.cs
                        THEN << [e |-> i + 1, c |-> c] >> ELSE << >>
      [] r.t = "cat" -> MatchCat(r.rs, s, i, c)
      [] r.t = "alt" -> MatchAlt(r.rs, 1, s, i, c)
      [] r.t = "rep" -> MatchRep(r, 0, s, i, c)
      [] r.t = "cap" -> Captured(Match(r.r, s, i, c), r.k, i)
      [] r.t = "bol" -> IF i = 1 THEN << [e |-> i, c |-> c] >> ELSE << >>
      [] r.t = "eol" -> IF i = Len(s) + 1 THEN << [e |-> i, c |-> c] >> ELSE << >>
      [] r.t = "wb"  -> IF IsWordAt(s, i - 1) # IsWordAt(s, i)
                        THEN << [e |-> i, c |-> c] >> ELSE << >>

MatchCat(rs, s, i, c) ==
    IF rs = << >> THEN << [e |-> i, c |-> c] >>
    ELSE MatchCatOver(Match(Head(rs), s, i, c), 1, Tail(rs), s)

MatchCatOver(ms, j, rest, s) ==
    IF j > Len(ms) THEN << >>
    ELSE MatchCat(rest, s, ms[j].e, ms[j].c) \o MatchCatOver(ms, j + 1, rest, s)

MatchAlt(rs, k, s, i, c) ==
    IF k > Len(rs) THEN << >>
    ELSE Match(rs[k], s, i, c) \o MatchAlt(rs, k + 1, s, i, c)

MatchRep(r, n, s, i, c) ==
    RepOrder(r.greedy,
             IF n < r.hi THEN MatchRepOver(Match(r.r, s, i, c), 1, r, n + 1, s) ELSE << >>,
             IF n >= r.lo THEN << [e |-> i, c |-> c] >> ELSE << >>)

MatchRepOver(ms, j, r, n, s) ==
    IF j > Len(ms) THEN << >>
    ELSE MatchRep(r, n, s, ms[j].e, ms[j].c) \o MatchRepOver(ms, j + 1, r, n, s)

NoMatch == [ok |-> FALSE, b |-> 0, e |-> 0, c |-> NoCaps]

\* r.exec(s) and s.match(r) without the g flag: the leftmost position with a match
Least(S) == IF S = {} THEN 0 ELSE CHOOSE i \in S : \A j \in S : i <= j

ExecResult(b, ms) == [ok |-> TRUE, b |-> b, e |-> ms[1].e, c |-> ms[1].c]

ExecAt(r, s, b) == IF b = 0 THEN NoMatch ELSE ExecResult(b, Match(r, s, b, NoCaps))

exec(r, s) == ExecAt(r, s, Least({i \in 1..(Len(s) + 1) : Match(r, s, i, NoCaps) # << >>}))

\* r.test(s)
test(r, s) == exec(r, s).ok

\* r.exec(s) searching from position from on
ExecFrom(r, s, from) ==
    ExecAt(r, s, Least({i \in from..(Len(s) + 1) : Match(r, s, i, NoCaps) # << >>}))

\* m[0]
Whole(m, s) == SubSeq(s, m.b, m.e - 1)

\* m[k]; a group that took no part is the empty string here
Group(m, s, k) == IF m.c[k] = <<0, 0>> THEN << >> ELSE SubSeq(s, m.c[k][1], m.c[k][2] - 1)

\* the first element of cs that is not Skip, and otherwise the default
Skip == <<"skip">>

FirstOf(cs, default) ==
    IF \E k \in 1..Len(cs) : cs[k] # Skip
    THEN cs[CHOOSE k \in 1..Len(cs) : cs[k] # Skip /\ \A j \in 1..(k - 1) : cs[j] = Skip]
    ELSE default

\* the first element of cs that is not empty, and otherwise the empty string
FirstTruthy(cs) ==
    IF \E k \in 1..Len(cs) : cs[k] # << >>
    THEN cs[CHOOSE k \in 1..Len(cs) : cs[k] # << >> /\ \A j \in 1..(k - 1) : cs[j] = << >>]
    ELSE << >>

D == Ch(Digit)

Sp == Ch(Space)

AN == Ch(AlNum)

Dn(lo, hi) == Rep(D, lo, hi)

\* an optional property that is absent (undefined)
Undef == <<"undefined">>

\* JavaScript truthiness of a string or undefined
Truthy(x) == x # << >> /\ x # Undef

(***************************************************************************)
(* gs1Parse: the GS1 decoder.                                              *)
(***************************************************************************)
\* raw.replace(/\|/g, GS1_GROUP_SEPARATOR).trim()
preprocess(raw) ==
    IF raw = Undef THEN << >>
    ELSE trim([k \in 1..Len(raw) |-> IF raw[k] = "|" THEN GS ELSE raw[k]])

Gs1Null == [found |-> FALSE, batch_no |-> << >>, lot_no |-> << >>, expiry |-> << >>,
            upc_gtin |-> Undef, serial |-> Undef]

\* the object literal without lot_no: batch
Gs1LabelResult_noLot(batch, expiry, gtin, serial) ==
    [found |-> TRUE, batch_no |-> batch, lot_no |-> << >>, expiry |-> expiry,
     upc_gtin |-> IF gtin # << >> THEN gtin ELSE Undef,
     serial   |-> IF serial # << >> THEN serial ELSE Undef]

\* the object literal both decoders return
Gs1LabelResult(batch, expiry, gtin, serial) ==
    [found |-> TRUE, batch_no |-> batch, lot_no |-> batch, expiry |-> expiry,
     upc_gtin |-> IF gtin # << >> THEN gtin ELSE Undef,
     serial   |-> IF serial # << >> THEN serial ELSE Undef]

\* the conversion with the pivot year 51
ExpandYYMMDD_pivot51(d) ==
    (IF parseInt(slice(d, 0, 2)) > 50 THEN <<"1","9">> ELSE <<"2","0">>)
    \o slice(d, 0, 2) \o <<"-">> \o slice(d, 2, 4) \o <<"-">> \o slice(d, 4, 6)

\* YYMMDD to YYYY-MM-DD with the pivot year 50
ExpandYYMMDD(d) ==
    LET yy == slice(d, 0, 2)
        mm == slice(d, 2, 4)
        dd == slice(d, 4, 6)
        yyyy == IF parseInt(yy) >= 50 THEN <<"1","9">> \o yy ELSE <<"2","0">> \o yy
    IN  yyyy \o <<"-">> \o mm \o <<"-">> \o dd

Re_gtin == Cat(<<Lit(<<"0","1">>), Cap(1, Dn(14, 14))>>)

Re_serial == Cat(<<Lit(<<"2","1">>), Cap(1, Rep(AN, 1, 20))>>)

Re_exp == Cat(<<Lit(<<"1","7">>), Cap(1, Dn(6, 6))>>)

Re_batchBeforeSerial ==
    Cat(<<Lit(<<"1","7">>), Dn(6, 6), Lit(<<"1","0">>), Cap(1, RepLazy(AN, 1, Inf)),
          Lit(<<"2","1">>)>>)

Re_batchToEnd ==
    Cat(<<Lit(<<"1","7">>), Dn(6, 6), Lit(<<"1","0">>), Cap(1, Rep(AN, 1, Inf))>>)

\* m[k] of a match m, the empty string when there was no match
GroupOr(m, s, k) == IF m.ok THEN Group(m, s, k) ELSE << >>

\* BatchOf that takes the match to the end first
BatchOf_toEndFirst(batchBeforeSerial, batchToEnd, t) ==
    IF batchToEnd.ok THEN Group(batchToEnd, t, 1)
    ELSE IF batchBeforeSerial.ok THEN Group(batchBeforeSerial, t, 1)
    ELSE << >>

BatchOf(batchBeforeSerial, batchToEnd, t) ==
    IF batchBeforeSerial.ok THEN Group(batchBeforeSerial, t, 1)
    ELSE IF batchToEnd.ok THEN Group(batchToEnd, t, 1)
    ELSE << >>

ExpiryOf(expMatch, t) == IF expMatch.ok THEN ExpandYYMMDD(Group(expMatch, t, 1)) ELSE << >>

\* the function without its guard on the length
ConcatenatedResult_noLengthGuard(t, gtin, serial, expiry, batch) ==
    IF gtin = << >> /\ expiry = << >> /\ batch = << >> /\ serial = << >> THEN Gs1Null
    ELSE Gs1LabelResult(batch, expiry, gtin, serial)

ConcatenatedResult(t, gtin, serial, expiry, batch) ==
    IF Len(t) < 20 THEN Gs1Null
    ELSE IF gtin = << >> /\ expiry = << >> /\ batch = << >> /\ serial = << >> THEN Gs1Null
    ELSE Gs1LabelResult(batch, expiry, gtin, serial)

ParseStripped(t) ==
    ConcatenatedResult(t,
                       GroupOr(exec(Re_gtin, t), t, 1),
                       GroupOr(exec(Re_serial, t), t, 1),
                       ExpiryOf(exec(Re_exp, t), t),
                       BatchOf(exec(Re_batchBeforeSerial, t), exec(Re_batchToEnd, t), t))

parseConcatenatedGs1(s) == ParseStripped(StripWs(s))

(***************************************************************************)
(* parser.decode of the GS1 library the decoder calls first.  The library  *)
(* is not part of the repository: its result is either a failure (an       *)
(* exception or no data) or the element strings of the AI grammar, AI 01   *)
(* (14 digits), 17 (6 digits), 10 and 21 (up to 20 characters, ended by    *)
(* the group separator, a bracketed AI or the end), bracketed or not.      *)
(***************************************************************************)
LibFail == [ok |-> FALSE, gtin |-> << >>, batch |-> << >>, expDate |-> << >>, serial |-> << >>]

AllIn(s, cs) == \A k \in 1..Len(s) : s[k] \in cs

\* the length of the run of characters of cs that starts at position i
RECURSIVE RunLen(_, _, _)
RunLen(s, i, cs) == IF i <= Len(s) /\ s[i] \in cs THEN 1 + RunLen(s, i + 1, cs) ELSE 0

ValidYYMMDD(d) ==
    /\ Len(d) = 6
    /\ AllIn(d, Digit)
    /\ parseInt(slice(d, 2, 4)) \in 1..12
    /\ parseInt(slice(d, 4, 6)) \in 1..31

VarLen(n) == IF n > 20 THEN 20 ELSE n

RECURSIVE DecodeElements(_, _, _)
RECURSIVE DecodeValue(_, _, _, _)
RECURSIVE DecodeVariable(_, _, _, _, _)

\* the element string that starts at position i
DecodeElements(s, i, data) ==
    IF i > Len(s) THEN data
    ELSE IF s[i] = GS THEN DecodeElements(s, i + 1, data)
    ELSE IF s[i] = "("
         THEN IF i + 3 <= Len(s) /\ s[i + 3] = ")"
              THEN DecodeValue(s, SubSeq(s, i + 1, i + 2), i + 4, data)
              ELSE LibFail
    ELSE IF i + 1 <= Len(s) THEN DecodeValue(s, SubSeq(s, i, i + 1), i + 2, data)
    ELSE LibFail

\* the value of AI ai, which starts at position v
DecodeValue(s, ai, v, data) ==
    IF ai = <<"0","1">>
    THEN IF v + 13 <= Len(s) /\ AllIn(SubSeq(s, v, v + 13), Digit)
         THEN DecodeElements(s, v + 14, [data EXCEPT !.gtin = SubSeq(s, v, v + 13)])
         ELSE LibFail
    ELSE IF ai = <<"1","7">>
    THEN IF v + 5 <= Len(s) /\ ValidYYMMDD(SubSeq(s, v, v + 5))
         THEN DecodeElements(s, v + 6,
                             [data EXCEPT !.expDate = ExpandYYMMDD(SubSeq(s, v, v + 5))])
         ELSE LibFail
    ELSE IF ai = <<"1","0">> \/ ai = <<"2","1">>
    THEN DecodeVariable(s, ai, v, VarLen(RunLen(s, v, AlNum)), data)
    ELSE LibFail

DecodeVariable(s, ai, v, n, data) ==
    IF n < 1 THEN LibFail
    ELSE IF ai = <<"1","0">>
    THEN DecodeElements(s, v + n, [data EXCEPT !.batch = SubSeq(s, v, v + n - 1)])
    ELSE DecodeElements(s, v + n, [data EXCEPT !.serial = SubSeq(s, v, v + n - 1)])

GS1ParserDecode(s) == DecodeElements(s, 1, [LibFail EXCEPT !.ok = TRUE])

\* the function without the fallback: null when parser.decode gives nothing
parseGs1WithLib_noFallback(raw, lib) ==
    IF lib.ok /\ (lib.batch # << >> \/ lib.expDate # << >> \/ lib.gtin # << >>
                  \/ lib.serial # << >>)
    THEN Gs1LabelResult(lib.batch, slice(lib.expDate, 0, 10), lib.gtin, lib.serial)
    ELSE Gs1Null

\* the result of parseGs1ToLabelJson when parser.decode answers lib
parseGs1WithLib(raw, lib) ==
    LET normalized == preprocess(raw)
        expiry == IF Len(lib.expDate) >= 10 THEN slice(lib.expDate, 0, 10) ELSE lib.expDate
    IN  IF normalized = << >> THEN Gs1Null
        ELSE IF lib.ok /\ (lib.batch # << >> \/ expiry # << >> \/ lib.gtin # << >>
                           \/ lib.serial # << >>)
             THEN Gs1LabelResult(lib.batch, expiry, lib.gtin, lib.serial)
        ELSE parseConcatenatedGs1(normalized)

\* what parser.decode may answer on an input
LibOutcomes(normalized) == {LibFail, GS1ParserDecode(normalized)}

\* the results parseGs1ToLabelJson may return
parseGs1ToLabelJson(raw) == {parseGs1WithLib(raw, lib) : lib \in LibOutcomes(preprocess(raw))}

(***************************************************************************)
(* labelPatterns: the field registry and normalizeExpiryForMapping.        *)
(***************************************************************************)
N_LotNo == <<"L","o","t"," ","n","o">>

N_Expiry == <<"E","x","p","i","r","y">>

N_ProductCode == <<"P","r","o","d","u","c","t"," ","c","o","d","e">>

N_BatchNo == <<"B","a","t","c","h"," ","n","o">>

N_RefNo == <<"R","e","f"," ","n","o">>

N_BatchLotNumeric == <<"B","a","t","c","h","/","L","o","t"," ","(","n","u","m","e","r","i","c",")">>

N_ExpiryYyyyMmm == <<"E","x","p","i","r","y"," ","(","Y","Y","Y","Y","-","M","M","M",")">>

N_LotNoLotPrefix == <<"L","o","t"," ","n","o"," ","(","L","O","T"," ","p","r","e","f","i","x",")">>

N_ExpiryExpMmmYyyy == <<"E","x","p","i","r","y"," ","(","E","X","P"," ","M","M","M"," ","Y","Y","Y","Y",")">>

N_ExpiryExpMmYy == <<"E","x","p","i","r","y"," ","(","E","X","P"," ","M","M","/","Y","Y",")">>

N_LotNoLotNumber == <<"L","o","t"," ","n","o"," ","(","L","O","T"," ","N","U","M","B","E","R",")">>

N_SerialNo == <<"S","e","r","i","a","l"," ","n","o">>

N_ExpiryExpirationDate == <<"E","x","p","i","r","y"," ","(","E","X","P","I","R","A","T","I","O","N"," ","D","A","T","E",")">>

\* the two field names the mapper knows outside the registry
N_Barcode == <<"B","a","r","c","o","d","e">>

N_ExpiryDate == <<"E","x","p","i","r","y"," ","D","a","t","e">>

\* scanditFieldName and outputKeys of each entry, in registry order
SCANDIT_FIELD_DEFINITIONS ==
    << [scanditFieldName |-> N_LotNo,                outputKeys |-> <<"lot_no">>],
       [scanditFieldName |-> N_Expiry,               outputKeys |-> <<"expiry">>],
       [scanditFieldName |-> N_ProductCode,          outputKeys |-> <<"batch_no", "lot_no">>],
       [scanditFieldName |-> N_BatchNo,              outputKeys |-> <<"batch_no">>],
       [scanditFieldName |-> N_RefNo,                outputKeys |-> <<"ref">>],
       [scanditFieldName |-> N_BatchLotNumeric,      outputKeys |-> <<"batch_no", "lot_no">>],
       [scanditFieldName |-> N_ExpiryYyyyMmm,        outputKeys |-> <<"expiry">>],
       [scanditFieldName |-> N_LotNoLotPrefix,       outputKeys |-> <<"lot_no">>],
       [scanditFieldName |-> N_ExpiryExpMmmYyyy,     outputKeys |-> <<"expiry">>],
       [scanditFieldName |-> N_ExpiryExpMmYy,        outputKeys |-> <<"expiry">>],
       [scanditFieldName |-> N_LotNoLotNumber,       outputKeys |-> <<"lot_no">>],
       [scanditFieldName |-> N_SerialNo,             outputKeys |-> <<"serial">>],
       [scanditFieldName |-> N_ExpiryExpirationDate, outputKeys |-> <<"expiry">>] >>

MonthNames ==
    << <<"J","A","N">>, <<"F","E","B">>, <<"M","A","R">>, <<"A","P","R">>,
       <<"M","A","Y">>, <<"J","U","N">>, <<"J","U","L">>, <<"A","U","G">>,
       <<"S","E","P">>, <<"O","C","T">>, <<"N","O","V">>, <<"D","E","C">> >>

\* the table counted from zero
MONTH_NAME_TO_NUM_fromZero(name) ==
    padStart2(NumToStr((CHOOSE k \in 1..12 : MonthNames[k] = name) - 1))

\* MONTH_NAME_TO_NUM[name] for an upper-case month name
MONTH_NAME_TO_NUM(name) ==
    padStart2(NumToStr(CHOOSE k \in 1..12 : MonthNames[k] = name))

\* (JAN|FEB|...|DEC), case-sensitive
MonthAlt == Alt([k \in 1..12 |-> Lit(MonthNames[k])])

\* (JAN|FEB|...|DEC) under the i flag
MonthAltI == Alt([k \in 1..12 |-> LitI(MonthNames[k])])

Re_yyyyMmm == Cat(<<Bol, Cap(1, Dn(4, 4)), Ch({"-"}), Cap(2, MonthAlt), Eol>>)

Re_mmmYyyy == Cat(<<Bol, Cap(1, MonthAlt), Plus(Sp), Cap(2, Dn(4, 4)), Eol>>)

Re_mmmYyyyNoSpace == Cat(<<Bol, Cap(1, MonthAlt), Cap(2, Dn(4, 4)), Eol>>)

Re_yyyyMmSlash == Cat(<<Bol, Cap(1, Dn(4, 4)), Ch({"/"}), Cap(2, Dn(1, 2)), Eol>>)

Re_mmYySlash == Cat(<<Bol, Cap(1, Dn(1, 2)), Ch({"/"}), Cap(2, Dn(2, 2)), Eol>>)

\* what each branch of normalizeExpiryForMapping returns on its match m, Skip without a match
From_yyyyMmm(m, v) ==
    IF m.ok THEN Group(m, v, 1) \o <<"-">> \o MONTH_NAME_TO_NUM(Group(m, v, 2)) ELSE Skip

From_mmmYyyy(m, v) ==
    IF m.ok THEN Group(m, v, 2) \o <<"-">> \o MONTH_NAME_TO_NUM(Group(m, v, 1)) ELSE Skip

\* the branch giving MM/YYYY, a notation the mapper's normalizeExpiry reads again
From_yyyyMmSlash_slashed(m, v) ==
    IF m.ok THEN padStart2(Group(m, v, 2)) \o <<"/">> \o Group(m, v, 1) ELSE Skip

From_yyyyMmSlash(m, v) ==
    IF m.ok THEN Group(m, v, 1) \o <<"-">> \o padStart2(Group(m, v, 2)) ELSE Skip

\* the MM/YY branch: the pivot year 50, and no result for a month outside 1..12
MmYy(mm, yy) ==
    IF parseInt(mm) >= 1 /\ parseInt(mm) <= 12
    THEN NumToStr(IF yy >= 50 THEN 1900 + yy ELSE 2000 + yy) \o <<"-">> \o mm
    ELSE Skip

From_mmYySlash(m, v) ==
    IF m.ok THEN MmYy(padStart2(Group(m, v, 1)), parseInt(Group(m, v, 2))) ELSE Skip

NormalizeUpper(value, v) ==
    FirstOf(<< From_yyyyMmm(exec(Re_yyyyMmm, v), v),
               From_mmmYyyy(exec(Re_mmmYyyy, v), v),
               From_mmmYyyy(exec(Re_mmmYyyyNoSpace, v), v),
               From_yyyyMmSlash(exec(Re_yyyyMmSlash, v), v),
               From_mmYySlash(exec(Re_mmYySlash, v), v) >>,
            value)

normalizeExpiryForMapping(value) == NormalizeUpper(value, toUpperCase(trim(value)))

(***************************************************************************)
(* scanditLabelToOcrFormat: helpers of the structured-field mapper.        *)
(***************************************************************************)
\* the outputKeys of a field name, << >> for a name outside the registry
FIELD_TO_OUTPUT_KEYS(name) ==
    IF \E k \in 1..Len(SCANDIT_FIELD_DEFINITIONS) :
           SCANDIT_FIELD_DEFINITIONS[k].scanditFieldName = name
    THEN SCANDIT_FIELD_DEFINITIONS[
           CHOOSE k \in 1..Len(SCANDIT_FIELD_DEFINITIONS) :
               /\ SCANDIT_FIELD_DEFINITIONS[k].scanditFieldName = name
               /\ \A j \in (k + 1)..Len(SCANDIT_FIELD_DEFINITIONS) :
                      SCANDIT_FIELD_DEFINITIONS[j].scanditFieldName # name].outputKeys
    ELSE << >>

Includes(keys, key) == \E k \in 1..Len(keys) : keys[k] = key

Re_sixDigits == Cat(<<Bol, Dn(6, 6), Eol>>)

isLikelyYYMMDD(s) ==
    IF ~test(Re_sixDigits, s) THEN FALSE
    ELSE LET mm == parseInt(slice(s, 2, 4))
             dd == parseInt(slice(s, 4, 6))
         IN  mm >= 1 /\ mm <= 12 /\ dd >= 1 /\ dd <= 31

Re_L0T == Cat(<<Bol, Ch({"L"}), Opt(Ch({"0"})), Ch({"T"}), Eol>>)

Re_EXP == Cat(<<Bol, Ch({"E"}), Ch({"X"}), Opt(Ch({"P"})), Eol>>)

Re_E1P == Cat(<<Bol, Lit(<<"E","1","P">>), Eol>>)

Re_LAY0UT == Cat(<<Bol, Lit(<<"L","A","Y">>), Opt(Ch({"0"})), Lit(<<"U","T">>), Eol>>)

\* MisreadUpper without the word-with-digit branch
MisreadUpper_noLayout(u) ==
    test(Re_L0T, u) \/ test(Re_EXP, u) \/ test(Re_E1P, u) \/ u = <<"L","O","T">>

MisreadUpper(u) ==
    IF test(Re_L0T, u) \/ test(Re_EXP, u) \/ test(Re_E1P, u) \/ u = <<"L","O","T">> THEN TRUE
    ELSE IF test(Re_LAY0UT, u) \/ u = <<"L","A","Y","O","U","T">> THEN TRUE
    ELSE FALSE

MisreadTrimmed(s) == IF Len(s) <= 3 THEN TRUE ELSE MisreadUpper(toUpperCase(s))

isProductCodeMisread(value) == MisreadTrimmed(trim(value))

\* the pattern without the optional day
Re_yyyyMm_noDay == Cat(<<Bol, Cap(1, Dn(4, 4)), Ch({"-"}), Cap(2, Dn(1, 2)), Eol>>)

Re_yyyyMm == Cat(<<Bol, Cap(1, Dn(4, 4)), Ch({"-"}), Cap(2, Dn(1, 2)),
                   Opt(Cap(3, Cat(<<Ch({"-"}), Cap(4, Dn(1, 2))>>))), Eol>>)

Re_mmDdYyyy == Cat(<<Bol, Cap(1, Dn(1, 2)), Ch({"/"}), Cap(2, Dn(1, 2)), Ch({"/"}),
                     Cap(3, Dn(4, 4)), Eol>>)

Re_ddMmYyyy == Cat(<<Bol, Cap(1, Dn(1, 2)), Ch({"-"}), Cap(2, Dn(1, 2)), Ch({"-"}),
                     Cap(3, Dn(4, 4)), Eol>>)

Re_mmYyyy == Cat(<<Bol, Cap(1, Dn(1, 2)), Ch({"/"}), Cap(2, Dn(4, 4)), Eol>>)

\* what each branch of normalizeExpiry returns on its match m: year group y, month group k
YearMonth(m, v, y, k) ==
    IF m.ok THEN Group(m, v, y) \o <<"-">> \o padStart2(Group(m, v, k)) ELSE Skip

NormalizeWith(v, fromMmm) ==
    IF fromMmm # v THEN fromMmm
    ELSE FirstOf(<< YearMonth(exec(Re_yyyyMm, v), v, 1, 2),
                    YearMonth(exec(Re_mmDdYyyy, v), v, 3, 1),
                    YearMonth(exec(Re_ddMmYyyy, v), v, 3, 2),
                    YearMonth(exec(Re_mmYyyy, v), v, 2, 1) >>,
                 v)

NormalizeTrimmed(v) == NormalizeWith(v, normalizeExpiryForMapping(v))

normalizeExpiry(value) == NormalizeTrimmed(trim(value))

Colon == Ch({":"})

Dot == Ch({"."})

\* (?:No\.?|Number|#)?
NoNumberHash ==
    Opt(Alt(<< Cat(<<LitI(<<"N","o">>), Opt(Dot)>>),
               LitI(<<"N","u","m","b","e","r">>),
               Ch({"#"}) >>))

Re_lotRaw ==
    Cat(<< Alt(<< Cat(<<LitI(<<"L","o","t">>), Star(Sp), NoNumberHash, Star(Sp), Opt(Colon)>>),
                  Cat(<<LitI(<<"L","O","T">>), Star(Sp), LitI(<<"N","O">>), Opt(Dot),
                        Star(Sp), Opt(Colon)>>),
                  Cat(<<LitI(<<"L","O","T">>), Star(Sp), LitI(<<"N","U","M","B","E","R">>),
                        Star(Sp), Opt(Colon)>>),
                  Cat(<<LitI(<<"L","O","T">>), Plus(Sp)>>) >>),
           Star(Sp),
           Cap(1, Rep(AN, 4, 15)) >>)

Re_standAlone6 == Cat(<<Wb, Cap(1, Dn(6, 6)), Wb>>)

Re_expiryRaw ==
    Cat(<< Alt(<< Cat(<<LitI(<<"E","x","p">>), Opt(Dot)>>),
                  LitI(<<"E","x","p","i","r","y">>),
                  Cat(<<LitI(<<"E","x","p","i","r","a","t","i","o","n">>),
                        Opt(Cat(<<Star(Sp), LitI(<<"D","A","T","E">>)>>))>>),
                  Cat(<<LitI(<<"U","s","e">>), Star(Sp), Opt(Ch({"-", " "})), LitI(<<"B","y">>)>>),
                  Cat(<<LitI(<<"E","X","P">>), Plus(Sp)>>) >>),
           Star(Sp), Opt(Colon), Star(Sp),
           Cap(1, Alt(<<
               Cat(<<Dn(4, 4), Ch({"-"}), Dn(2, 2), Opt(Cap(2, Cat(<<Ch({"-"}), Dn(2, 2)>>)))>>),
               Cat(<<Dn(4, 4), Ch({"/"}), Dn(1, 2), Opt(Cat(<<Ch({"/"}), Dn(2, 4)>>))>>),
               Cat(<<Dn(4, 4), Ch({"-"}), MonthAltI>>),
               Cat(<<MonthAltI, Plus(Sp), Dn(4, 4)>>),
               Cat(<<MonthAltI, Dn(4, 4)>>),
               Cat(<<Dn(1, 2), Ch({"/"}), Dn(1, 2), Ch({"/"}), Dn(4, 4)>>),
               Cat(<<Dn(1, 2), Ch({"-"}), Dn(1, 2), Ch({"-"}), Dn(4, 4)>>) >>)) >>)

Re_yyyyMmmRaw == Cat(<<Wb, Cap(1, Cat(<<Dn(4, 4), Ch({"-"}), MonthAltI>>)), Wb>>)

Re_expMmmYyyyRaw ==
    Cat(<<Wb, Opt(Cap(1, Cat(<<LitI(<<"E","X","P">>), Plus(Sp)>>))),
          Cap(2, MonthAltI), Plus(Sp), Cap(3, Dn(4, 4)), Wb>>)

Re_expMmmYyyyNoSpaceRaw ==
    Cat(<<Wb, LitI(<<"E","X","P">>), Plus(Sp), Cap(1, MonthAltI), Cap(2, Dn(4, 4)), Wb>>)

Re_expMmYyRaw ==
    Cat(<<Wb, LitI(<<"E","X","P">>), Star(Sp),
          Cap(1, Cat(<<Dn(1, 2), Ch({"/"}), Dn(2, 2)>>)), Wb>>)

\* m[1].trim() of a match m, the empty string when there was no match
TrimmedGroupOr(m, s) == IF m.ok THEN trim(Group(m, s, 1)) ELSE << >>

\* the lot: the anchored match, else the first stand-alone run of six digits
parseLotFromRaw(raw) ==
    FirstTruthy(<< TrimmedGroupOr(exec(Re_lotRaw, raw), raw),
                   GroupOr(exec(Re_standAlone6, raw), raw, 1) >>)

Expiry_anchored(m, raw) == IF m.ok THEN normalizeExpiry(Group(m, raw, 1)) ELSE << >>

Expiry_expMmmYyyy(m, raw) ==
    IF m.ok THEN normalizeExpiry(Group(m, raw, 2) \o <<" ">> \o Group(m, raw, 3)) ELSE << >>

Expiry_expMmmYyyyNoSpace(m, raw) ==
    IF m.ok THEN normalizeExpiry(Group(m, raw, 1) \o Group(m, raw, 2)) ELSE << >>

\* the expiry: the first of the five patterns, in the order of the code, that gives one
parseExpiryFromRaw(raw) ==
    FirstTruthy(<< Expiry_anchored(exec(Re_expiryRaw, raw), raw),
                   Expiry_anchored(exec(Re_yyyyMmmRaw, raw), raw),
                   Expiry_expMmmYyyy(exec(Re_expMmmYyyyRaw, raw), raw),
                   Expiry_expMmmYyyyNoSpace(exec(Re_expMmmYyyyNoSpaceRaw, raw), raw),
                   Expiry_anchored(exec(Re_expMmYyRaw, raw), raw) >>)

parseLotAndExpiryFromRaw(raw) ==
    [lot_no |-> parseLotFromRaw(raw), expiry |-> parseExpiryFromRaw(raw)]

\* a number or null of the SDK's date: the set of the number, empty for null
IsNull(x) == x = {}

NumberOf(x) == CHOOSE n \in x : TRUE

\* String(n).padStart(2, '0')
PadNumber(x) == padStart2(NumToStr(NumberOf(x)))

\* formatExpiry that keeps the day
formatExpiry_withDay(day, month, year) ==
    IF IsNull(year) THEN << >>
    ELSE IF IsNull(month)
         THEN IF Len(NumToStr(NumberOf(year))) = 4 THEN NumToStr(NumberOf(year)) ELSE << >>
    ELSE IF IsNull(day) THEN NumToStr(NumberOf(year)) \o <<"-">> \o PadNumber(month)
    ELSE NumToStr(NumberOf(year)) \o <<"-">> \o PadNumber(month) \o <<"-">> \o PadNumber(day)

formatExpiry(day, month, year) ==
    IF IsNull(year) THEN << >>
    ELSE IF IsNull(month)
         THEN IF Len(NumToStr(NumberOf(year))) = 4 THEN NumToStr(NumberOf(year)) ELSE << >>
    ELSE IF IsNull(day) THEN NumToStr(NumberOf(year)) \o <<"-">> \o PadNumber(month)
    ELSE slice(NumToStr(NumberOf(year)) \o <<"-">> \o PadNumber(month) \o <<"-">>
               \o PadNumber(day), 0, 7)

SERIAL_FROM_RAW_REGEX ==
    Cat(<< Alt(<< Cat(<<LitI(<<"S","e","r","i","a","l">>), Star(Sp), NoNumberHash,
                        Star(Sp), Opt(Colon)>>),
                  Cat(<<LitI(<<"S","N">>), Star(Sp), Opt(Colon)>>),
                  Cat(<<LitI(<<"S","/","N">>), Star(Sp), Opt(Colon)>>) >>),
           Star(Sp),
           Cap(1, Rep(AN, 8, 20)) >>)

\* SERIAL_FROM_RAW_REGEX.exec(raw) of a regex with the g flag: the search starts at lastIndex,
\* which is left at the end of the match, or at 0 when there is none
SerialMatch_globalExec(raw, li) ==
    [m |-> ExecFrom(SERIAL_FROM_RAW_REGEX, raw, li + 1),
     lastIndex |-> IF ExecFrom(SERIAL_FROM_RAW_REGEX, raw, li + 1).ok
                   THEN ExecFrom(SERIAL_FROM_RAW_REGEX, raw, li + 1).e - 1
                   ELSE 0]

\* raw.match(SERIAL_FROM_RAW_REGEX), li being the lastIndex of the regex: its only flag is i,
\* so the search starts at 0 and lastIndex is left as it was
SerialMatch(raw, li) == [m |-> exec(SERIAL_FROM_RAW_REGEX, raw), lastIndex |-> li]

parseSerialFromRaw(raw, li) == TrimmedGroupOr(SerialMatch(raw, li).m, raw)

\* the ids of the formats, in the order of the registry
LABEL_FORMATS ==
    <<"gs1_style", "numeric_lot_yyyy_mmm", "lot_exp_mmm_yyyy", "lot_number_expiration_date",
      "lot_hash_exp_slash", "fallback">>

\* the two registries as the modules export them
Registry ==
    [LABEL_FORMATS |-> LABEL_FORMATS, SCANDIT_FIELD_DEFINITIONS |-> SCANDIT_FIELD_DEFINITIONS]

\* what parser.decode may answer on an input after the answers in p: the library is taken
\* to answer an input it has seen as it answered it before
ParserAnswers(p, normalized) ==
    IF \E e \in p : e[1] = normalized
    THEN {e[2] : e \in {x \in p : x[1] = normalized}}
    ELSE LibOutcomes(normalized)

\* the answers after parser.decode(normalized) answered lib; the decoder does not call it
\* on an empty string
ParserAfter(p, normalized, lib) ==
    IF normalized = << >> THEN p ELSE p \cup {<<normalized, lib>>}

(***************************************************************************)
(* scanditFieldsToLabelJson as a state machine: one step per iteration of  *)
(* the field loop, then one step per block of the function, in the order   *)
(* of the code.  The call has returned when pc = "done".                   *)
(***************************************************************************)
VARIABLES
    fields,         \* the argument: a sequence of [name, value]
    pc,             \* the block to run next
    idx,            \* the index of the field the loop is at
    labelJson,      \* the record under construction
    lines,          \* the "name: value" lines pushed so far
    barcodeValues,  \* the trimmed values of the Barcode fields
    longGs1,        \* the primary GS1 barcode, Undef when there is none
    shortBarcode,   \* the short numeric barcode, Undef when there is none
    barcodeValue,   \* the barcode value chosen for decoding
    gs1,            \* what parseGs1ToLabelJson returned, Gs1Null when null or not called
    parsed,         \* what parseLotAndExpiryFromRaw returned, when it was called
    raw,            \* the raw text
    op,             \* the function of a call of one of the other functions, "idle" without one
    arg,            \* the argument of that call
    res,            \* what that call returned, NotReturned before it returns
    lastIndex,      \* SERIAL_FROM_RAW_REGEX.lastIndex
    parser,         \* the answers the GS1 library instance has given: <<input, answer>>
    registry,       \* LABEL_FORMATS and SCANDIT_FIELD_DEFINITIONS
    history,        \* the calls that have returned: function, input, output
    scans,          \* the dashboard's list of scan items
    received,       \* the number of broadcasts the dashboard's handler has run for
    subscribed,     \* the dashboard's handler is registered on the socket
    showScanditLabel, \* the App shows LabelCaptureScan
    mounted,        \* LabelCaptureScan is mounted
    continuous,     \* the prop continuous
    effect,         \* the number of the effect instance that runs, 0 before the first
    phase,          \* of each effect instance, how far init() has come
    cancelled,      \* of each effect instance, its flag cancelled
    resultSent,     \* of each effect instance, its flag resultSent
    pendingLabelRef, \* pendingLabelRef.current
    stabilityTimerRef, \* stabilityTimerRef.current: the id of a timer, 0 for null
    cooldown,       \* Date.now() - lastCaptureTimeRef.current < CAPTURE_COOLDOWN_MS
    timers,         \* the stability timers that are set and have not fired: id and effect instance
    timerCount,     \* the number of timers set so far
    runs,           \* the calls of processLabel that wait at an await
    updates,        \* the number of session updates delivered so far
    results,        \* the calls of onResult so far
    closes,         \* the calls of onClose by processLabel so far
    accepted,       \* of each update taken since processLabel last took the pending label, its complete labels
    observed,       \* of each update with a complete label since the last call of onResult, these labels
    sid,            \* the state sid of the mobile App, empty for null
    mode,           \* the state mode
    rendered,       \* the mode of the render whose effects have run
    ocrProvider,    \* the state ocrProvider
    scannerRef,     \* scannerRef.current: the number of a scanner, 0 for null
    scanners,       \* of each Html5Qrcode created, its state
    barcodeScanDoneRef, \* barcodeScanDoneRef.current
    ocrScanDoneRef, \* ocrScanDoneRef.current
    ocr,            \* of each run of the OCR effect, its flag cancelled, its provider and how far it has come
    decodes,        \* the number of calls of the decode callback so far
    sent,           \* the scans passed to sendScan
    members,        \* the pairs of a socket and a room it has joined
    joins,          \* the join-room requests so far: socket and payload sid
    relayed,        \* the broadcasts so far: the event, the sockets it went to, the sid of the request
    requests        \* the number of requests handled so far

\* the variables of a call of one of the other functions
callVars == <<op, arg, res>>

\* the variables of a call of scanditFieldsToLabelJson
mapperVars == <<fields, pc, idx, labelJson, lines, barcodeValues, longGs1, shortBarcode,
                barcodeValue, gs1, parsed, raw>>

\* the objects the modules create when they are loaded
moduleVars == <<lastIndex, parser, registry>>

\* the variables of the engine
engineVars == <<mapperVars, callVars, moduleVars, history>>

\* the variables of the dashboard
dashboardVars == <<scans, received, subscribed>>

\* the variables of LabelCaptureScan and of the App that shows it
scanVars ==
    <<showScanditLabel, mounted, continuous, effect, phase, cancelled, resultSent,
      pendingLabelRef, stabilityTimerRef, cooldown, timers, timerCount, runs, updates,
      results, closes, accepted, observed>>

\* the variables of the mobile App's barcode and OCR scanning
mobileVars ==
    <<sid, mode, rendered, ocrProvider, scannerRef, scanners, barcodeScanDoneRef,
      ocrScanDoneRef, ocr, decodes, sent>>

\* the variables of the socket server
serverVars ==
    <<members, joins, relayed, requests>>

\* the variables of the applications around the engine
appVars == <<dashboardVars, scanVars, mobileVars, serverVars>>

vars == <<engineVars, appVars>>

\* what the steps of the dashboard leave alone
besidesDashboard == <<engineVars, scanVars, mobileVars, serverVars>>

\* what the steps of LabelCaptureScan leave alone
besidesScan == <<engineVars, dashboardVars, mobileVars, serverVars>>

\* what the steps of the mobile App's scanning leave alone
besidesMobile == <<engineVars, dashboardVars, scanVars, serverVars>>

\* what the steps of the socket server leave alone
besidesServer == <<engineVars, dashboardVars, scanVars, mobileVars>>

\* the dashboard is not mounted
DashboardIdle ==
    /\ scans = << >>
    /\ received = 0
    /\ subscribed = FALSE

\* pendingLabelRef.current is null
NoLabel == [name |-> "null", fields |-> 0]

\* LabelCaptureScan is not shown
ScanIdle ==
    /\ showScanditLabel = FALSE
    /\ mounted = FALSE
    /\ continuous = FALSE
    /\ effect = 0
    /\ phase = << >>
    /\ cancelled = << >>
    /\ resultSent = << >>
    /\ pendingLabelRef = NoLabel
    /\ stabilityTimerRef = 0
    /\ cooldown = FALSE
    /\ timers = {}
    /\ timerCount = 0
    /\ runs = {}
    /\ updates = 0
    /\ results = << >>
    /\ closes = << >>
    /\ accepted = << >>
    /\ observed = << >>

\* the mobile App has no room and scans nothing
MobileIdle ==
    /\ sid = << >>
    /\ mode = "null"
    /\ rendered = "null"
    /\ ocrProvider = "tesseract"
    /\ scannerRef = 0
    /\ scanners = << >>
    /\ barcodeScanDoneRef = FALSE
    /\ ocrScanDoneRef = FALSE
    /\ ocr = << >>
    /\ decodes = 0
    /\ sent = << >>

\* the socket server has no connection
ServerIdle ==
    /\ members = {}
    /\ joins = {}
    /\ relayed = << >>
    /\ requests = 0

\* no application is running
AppIdle ==
    /\ DashboardIdle
    /\ ScanIdle
    /\ MobileIdle
    /\ ServerIdle

\* the modules have been loaded and nothing has been called
Loaded ==
    /\ lastIndex = 0
    /\ parser = {}
    /\ registry = Registry
    /\ history = << >>

NotReturned == <<"not returned">>

\* f.value ?? ''
ValueOf(f) == IF f.value = Undef THEN << >> ELSE f.value

\* `${f.name}: ${f.value ?? ''}`
LineOf(f) == f.name \o <<":", " ">> \o ValueOf(f)

IsMisreadField(f) == f.name = N_ProductCode /\ isProductCodeMisread(trim(ValueOf(f)))

\* the for loop over outputKeys
RECURSIVE SetKeys(_, _, _, _)
SetKeys(lj, keys, k, valueToSet) ==
    IF k > Len(keys) THEN lj
    ELSE SetKeys([lj EXCEPT ![keys[k]] = valueToSet], keys, k + 1, valueToSet)

MapFieldWith(lj, f, v, outputKeys) ==
    IF f.name = N_Barcode THEN lj
    ELSE IF outputKeys # << >>
         THEN IF f.name = N_ProductCode /\ isProductCodeMisread(v) THEN lj
              ELSE IF f.name = N_BatchLotNumeric /\ isLikelyYYMMDD(v)
                   THEN [lj EXCEPT !.expiry = v]
              ELSE SetKeys(lj, outputKeys, 1,
                           IF Includes(outputKeys, "expiry") THEN normalizeExpiry(v) ELSE v)
    ELSE IF f.name = N_ExpiryDate THEN [lj EXCEPT !.expiry = normalizeExpiry(v)]
    ELSE lj

\* the effect of one loop iteration on labelJson
MapField(lj, f) == MapFieldWith(lj, f, trim(ValueOf(f)), FIELD_TO_OUTPUT_KEYS(f.name))

FieldStep ==
    /\ UNCHANGED <<callVars, moduleVars, history>>
    /\ pc = "loop"
    /\ idx <= Len(fields)
    /\ LET f == fields[idx]
       IN  /\ lines' = IF IsMisreadField(f) THEN lines ELSE Append(lines, LineOf(f))
           /\ barcodeValues' = IF f.name = N_Barcode
                               THEN Append(barcodeValues, trim(ValueOf(f)))
                               ELSE barcodeValues
           /\ labelJson' = MapField(labelJson, f)
    /\ idx' = idx + 1
    /\ UNCHANGED <<fields, pc, longGs1, shortBarcode, barcodeValue, gs1, parsed, raw>>
    /\ UNCHANGED appVars

Re_01d14 == Cat(<<Lit(<<"0","1">>), Dn(14, 14)>>)

Re_d5to7 == Cat(<<Bol, Dn(5, 7), Eol>>)

LongGs1Stripped(t) == Len(t) >= 20 /\ test(Re_01d14, t)

IsLongGs1(val) == LongGs1Stripped(StripWs(val))

IsShortBarcode(val) == test(Re_d5to7, StripWs(val))

\* vals.find(p), given ok[k] = p(vals[k]): the first element that satisfies p, else Undef
Find(vals, ok) ==
    IF \E k \in 1..Len(vals) : ok[k]
    THEN vals[CHOOSE k \in 1..Len(vals) : ok[k] /\ \A j \in 1..(k - 1) : ~ok[j]]
    ELSE Undef

\* FindLongGs1 that takes the longest of the values that qualify
FindLongGs1_longest(vals) ==
    IF \E k \in 1..Len(vals) : IsLongGs1(vals[k])
    THEN vals[CHOOSE k \in 1..Len(vals) :
                  /\ IsLongGs1(vals[k])
                  /\ \A j \in 1..Len(vals) :
                         IsLongGs1(vals[j]) =>
                             \/ Len(vals[j]) < Len(vals[k])
                             \/ Len(vals[j]) = Len(vals[k]) /\ k <= j]
    ELSE Undef

FindLongGs1(vals) == Find(vals, [k \in 1..Len(vals) |-> IsLongGs1(vals[k])])

FindShortBarcode(vals) == Find(vals, [k \in 1..Len(vals) |-> IsShortBarcode(vals[k])])

\* vals.reduce((a, b) => (a.length >= b.length ? a : b))
RECURSIVE ReduceLongest(_, _, _)
ReduceLongest(vals, k, a) ==
    IF k > Len(vals) THEN a
    ELSE ReduceLongest(vals, k + 1, IF Len(a) >= Len(vals[k]) THEN a ELSE vals[k])

\* longGs1 ?? (the longest value, '' when there is none)
ChooseBarcodeValue(vals, long) ==
    IF long # Undef THEN long
    ELSE IF Len(vals) > 0 THEN ReduceLongest(vals, 2, vals[1])
    ELSE << >>

SelectBarcode ==
    /\ UNCHANGED <<callVars, moduleVars, history>>
    /\ pc = "loop"
    /\ idx > Len(fields)
    /\ longGs1' = FindLongGs1(barcodeValues)
    /\ barcodeValue' = ChooseBarcodeValue(barcodeValues, longGs1')
    /\ shortBarcode' = FindShortBarcode(barcodeValues)
    /\ labelJson' = IF ~Truthy(labelJson.ref) /\ Truthy(shortBarcode') /\ Truthy(longGs1')
                    THEN [labelJson EXCEPT !.ref = trim(shortBarcode')]
                    ELSE labelJson
    /\ pc' = "decode"
    /\ UNCHANGED <<fields, idx, lines, barcodeValues, gs1, parsed, raw>>
    /\ UNCHANGED appVars

\* MergeGs1 that fills only the roles the fields left empty
MergeGs1_keepFields(lj, g) ==
    IF ~g.found THEN lj
    ELSE [lj EXCEPT !.batch_no = IF Truthy(g.batch_no) /\ ~Truthy(@) THEN g.batch_no ELSE @,
                    !.lot_no   = IF Truthy(g.lot_no) /\ ~Truthy(@) THEN g.lot_no ELSE @,
                    !.expiry   = IF Truthy(g.expiry) /\ ~Truthy(@) THEN g.expiry ELSE @,
                    !.upc_gtin = IF Truthy(g.upc_gtin) THEN g.upc_gtin ELSE @,
                    !.serial   = IF Truthy(g.serial) THEN g.serial ELSE @]

\* the merge of a decode result into labelJson
MergeGs1(lj, g) ==
    IF ~g.found THEN lj
    ELSE [lj EXCEPT !.batch_no = IF Truthy(g.batch_no) THEN g.batch_no ELSE @,
                    !.lot_no   = IF Truthy(g.lot_no) THEN g.lot_no ELSE @,
                    !.expiry   = IF Truthy(g.expiry) THEN g.expiry ELSE @,
                    !.upc_gtin = IF Truthy(g.upc_gtin) THEN g.upc_gtin ELSE @,
                    !.serial   = IF Truthy(g.serial) THEN g.serial ELSE @]

DecodeBarcode ==
    /\ UNCHANGED <<callVars, lastIndex, registry, history>>
    /\ pc = "decode"
    /\ IF Len(barcodeValue) >= 14
       THEN \E lib \in ParserAnswers(parser, preprocess(barcodeValue)) :
               /\ gs1' = parseGs1WithLib(barcodeValue, lib)
               /\ labelJson' = MergeGs1(labelJson, gs1')
               /\ parser' = ParserAfter(parser, preprocess(barcodeValue), lib)
       ELSE UNCHANGED <<gs1, labelJson, parser>>
    /\ pc' = "adopt"
    /\ UNCHANGED <<fields, idx, lines, barcodeValues, longGs1, shortBarcode, barcodeValue,
                   parsed, raw>>
    /\ UNCHANGED appVars

\* Re_gtinFromAi that takes 14 digits only
Re_gtinFromAi_14 ==
    Cat(<<Bol, Opt(Ch({"("})), Lit(<<"0","1">>), Opt(Ch({")"})), Star(Sp),
          Cap(1, Dn(14, 14)), Eol>>)

Re_gtinFromAi ==
    Cat(<<Bol, Opt(Ch({"("})), Lit(<<"0","1">>), Opt(Ch({")"})), Star(Sp),
          Cap(1, Dn(13, 14)), Eol>>)

Re_d6to14 == Cat(<<Bol, Dn(6, 14), Eol>>)

GtinPick(gtinFromAi, trimmed, digits) ==
    IF gtinFromAi.ok THEN Group(gtinFromAi, trimmed, 1)
    ELSE IF test(Re_d6to14, digits) THEN digits
    ELSE Undef

GtinFrom(trimmed, digits) == GtinPick(exec(Re_gtinFromAi, trimmed), trimmed, digits)

\* the upc_gtin a barcode value gives when none was decoded, Undef when it gives none
GtinFromBarcode(value) == GtinFrom(trim(value), StripWs(value))

SetIfDefined(lj, key, x) == IF x # Undef THEN [lj EXCEPT ![key] = x] ELSE lj

AdoptGtin ==
    /\ UNCHANGED <<callVars, moduleVars, history>>
    /\ pc = "adopt"
    /\ labelJson' = IF ~Truthy(labelJson.upc_gtin) /\ Truthy(barcodeValue)
                    THEN SetIfDefined(labelJson, "upc_gtin", GtinFromBarcode(barcodeValue))
                    ELSE labelJson
    /\ pc' = "raw"
    /\ UNCHANGED <<fields, idx, lines, barcodeValues, longGs1, shortBarcode, barcodeValue,
                   gs1, parsed, raw>>
    /\ UNCHANGED appVars

\* lines.join('\n') and the Serial line
AppendSerial(joined, serial) ==
    IF ~Truthy(serial) THEN joined
    ELSE IF joined # << >>
         THEN joined \o <<"\n">> \o <<"S","e","r","i","a","l",":"," ">> \o serial
         ELSE <<"S","e","r","i","a","l",":"," ">> \o serial

\* BuildRaw that joins the lines in reverse
BuildRaw_reversed(ls, serial) ==
    AppendSerial(JoinNl([k \in 1..Len(ls) |-> ls[Len(ls) + 1 - k]]), serial)

BuildRaw(ls, serial) == AppendSerial(JoinNl(ls), serial)

NotParsed == [lot_no |-> << >>, expiry |-> << >>]

\* FillGaps that takes what the raw text gives
FillGaps_overwrite(lj, p) ==
    [lj EXCEPT !.lot_no = IF Truthy(p.lot_no) THEN p.lot_no ELSE @,
               !.expiry = IF Truthy(p.expiry) THEN p.expiry ELSE @]

\* the two assignments under the test of lot_no and expiry
FillGaps(lj, p) ==
    [lj EXCEPT !.lot_no = IF ~Truthy(@) /\ Truthy(p.lot_no) THEN p.lot_no ELSE @,
               !.expiry = IF ~Truthy(@) /\ Truthy(p.expiry) THEN p.expiry ELSE @]

RawFallback ==
    /\ UNCHANGED <<callVars, moduleVars, history>>
    /\ pc = "raw"
    /\ raw' = BuildRaw(lines, labelJson.serial)
    /\ IF ~Truthy(labelJson.lot_no) \/ ~Truthy(labelJson.expiry)
       THEN /\ parsed' = parseLotAndExpiryFromRaw(raw')
            /\ labelJson' = FillGaps(labelJson, parsed')
       ELSE UNCHANGED <<parsed, labelJson>>
    /\ pc' = "serial"
    /\ UNCHANGED <<fields, idx, lines, barcodeValues, longGs1, shortBarcode, barcodeValue, gs1>>
    /\ UNCHANGED appVars

SetIfTruthy(lj, key, x) == IF Truthy(x) THEN [lj EXCEPT ![key] = x] ELSE lj

SerialFallback ==
    /\ UNCHANGED <<callVars, parser, registry, history>>
    /\ pc = "serial"
    /\ labelJson' = IF ~Truthy(labelJson.serial)
                    THEN SetIfTruthy(labelJson, "serial", parseSerialFromRaw(raw, lastIndex))
                    ELSE labelJson
    /\ lastIndex' = IF ~Truthy(labelJson.serial)
                    THEN SerialMatch(raw, lastIndex).lastIndex
                    ELSE lastIndex
    /\ pc' = "final"
    /\ UNCHANGED <<fields, idx, lines, barcodeValues, longGs1, shortBarcode, barcodeValue,
                   gs1, parsed, raw>>
    /\ UNCHANGED appVars

\* ClearCollisions without its second block
ClearCollisions_gtinOnly(lj) ==
    IF Truthy(lj.upc_gtin)
    THEN [lj EXCEPT !.batch_no = IF @ = lj.upc_gtin THEN << >> ELSE @,
                    !.lot_no   = IF @ = lj.upc_gtin THEN << >> ELSE @]
    ELSE lj

\* ClearCollisions without its first block
ClearCollisions_refOnly(lj) ==
    IF Truthy(lj.ref)
    THEN [lj EXCEPT !.batch_no = IF @ = lj.ref THEN << >> ELSE @,
                    !.lot_no   = IF @ = lj.ref THEN << >> ELSE @]
    ELSE lj

\* the two clearing blocks that end the function
ClearCollisions(lj) ==
    LET a == IF Truthy(lj.upc_gtin)
             THEN [lj EXCEPT !.batch_no = IF @ = lj.upc_gtin THEN << >> ELSE @,
                             !.lot_no   = IF @ = lj.upc_gtin THEN << >> ELSE @]
             ELSE lj
    IN  IF Truthy(a.ref)
        THEN [a EXCEPT !.batch_no = IF @ = a.ref THEN << >> ELSE @,
                       !.lot_no   = IF @ = a.ref THEN << >> ELSE @]
        ELSE a

Finalize ==
    /\ UNCHANGED <<callVars, moduleVars, history>>
    /\ pc = "final"
    /\ labelJson' = ClearCollisions(labelJson)
    /\ pc' = "done"
    /\ UNCHANGED <<fields, idx, lines, barcodeValues, longGs1, shortBarcode, barcodeValue,
                   gs1, parsed, raw>>
    /\ UNCHANGED appVars

(***************************************************************************)
(* The inputs: every sequence of at most MaxFields fields of FieldPool.    *)
(***************************************************************************)
MaxFields == 2

V_MK8701 == <<"M","K","8","7","0","1">>

V_2027MAR == <<"2","0","2","7","-","M","A","R">>

V_L0T == <<"L","0","T">>

V_Lay0ut == <<"L","a","y","0","u","t">>

V_B0Z7 == <<"B","0","Z","7">>

V_456085 == <<"4","5","6","0","8","5">>

V_261201 == <<"2","6","1","2","0","1">>

V_999999 == <<"9","9","9","9","9","9">>

V_SN == <<"S","N","1","2","3","4","5","6","7","8">>

V_12345678 == <<"1","2","3","4","5","6","7","8">>

V_2027 == <<"2","0","2","7">>

\* the batch that V_Gs1A carries in AI 10
V_79810 == <<"7","9","8","1","0">>

\* whitespace around the value
V_0327 == <<" ","0","3","/","2","7"," ">>

\* whitespace inside the value
V_1234_5678 == <<"1","2","3","4"," ","5","6","7","8">>

\* 01 + GTIN, 17 + YYMMDD, 10 + batch
V_Gs1A == <<"0","1","0","0","3","5","0","1","1","1","5","6","1","0","1","4",
            "1","7","2","7","0","5","3","1","1","0","7","9","8","1","0">>

\* 01 + GTIN, 21 + serial: longer than V_Gs1A, no batch and no expiry
V_Gs1B == <<"0","1","0","0","0","8","0","1","9","6","7","4","3","9","4","0",
            "2","1","A","B","C","D","E","1","2","3","4","5","X","Y","Z","9","9">>

\* bracketed: (01) + GTIN, (10) + batch
V_Gs1C == <<"(","0","1",")","0","0","3","5","0","1","1","1","5","6","1","0","1","4",
            "(","1","0",")","A","B","1","2">>

\* (01) + 13 digits
V_Ai13 == <<"(","0","1",")","1","2","3","4","5","6","7","8","9","0","1","2","3">>

FieldPool ==
    { [name |-> N_LotNo,           value |-> V_MK8701],
      [name |-> N_LotNo,           value |-> V_456085],
      [name |-> N_LotNo,           value |-> Undef],
      [name |-> N_Expiry,          value |-> V_0327],
      [name |-> N_Barcode,         value |-> V_1234_5678],
      [name |-> N_Expiry,          value |-> V_2027MAR],
      [name |-> N_ProductCode,     value |-> V_L0T],
      [name |-> N_ProductCode,     value |-> V_Lay0ut],
      [name |-> N_ProductCode,     value |-> V_B0Z7],
      [name |-> N_RefNo,           value |-> V_456085],
      [name |-> N_BatchLotNumeric, value |-> V_261201],
      [name |-> N_BatchLotNumeric, value |-> V_999999],
      [name |-> N_SerialNo,        value |-> V_SN],
      [name |-> N_ExpiryDate,      value |-> V_2027],
      [name |-> N_Barcode,         value |-> V_456085],
      [name |-> N_Barcode,         value |-> V_12345678],
      [name |-> N_Barcode,         value |-> V_79810],
      [name |-> N_Barcode,         value |-> V_Gs1A],
      [name |-> N_Barcode,         value |-> V_Gs1B],
      [name |-> N_Barcode,         value |-> V_Gs1C],
      [name |-> N_Barcode,         value |-> V_Ai13] }

FieldLists == UNION {[1..n -> FieldPool] : n \in 0..MaxFields}

Init ==
    /\ fields \in FieldLists
    /\ pc = "loop"
    /\ idx = 1
    /\ labelJson = [batch_no |-> << >>, lot_no |-> << >>, expiry |-> << >>,
                    upc_gtin |-> Undef, serial |-> Undef, ref |-> Undef]
    /\ lines = << >>
    /\ barcodeValues = << >>
    /\ longGs1 = Undef
    /\ shortBarcode = Undef
    /\ barcodeValue = << >>
    /\ gs1 = Gs1Null
    /\ parsed = NotParsed
    /\ raw = << >>
    /\ op = "idle"
    /\ arg = << >>
    /\ res = NotReturned
    /\ Loaded
    /\ AppIdle

Next ==
    \/ FieldStep
    \/ SelectBarcode
    \/ DecodeBarcode
    \/ AdoptGtin
    \/ RawFallback
    \/ SerialFallback
    \/ Finalize

Spec == Init /\ [][Next]_vars

(***************************************************************************)
(* Properties of scanditFieldsToLabelJson.  The record it returns is        *)
(* labelJson, and the text it returns is raw, in the states with           *)
(* pc = "done".                                                            *)
(***************************************************************************)
Returned == pc = "done"

BatchLotKeys == {"batch_no", "lot_no"}

\* x is the non-empty identifier or the non-empty reference of the record lj
CollidesWith(lj, x) ==
    \/ Truthy(lj.upc_gtin) /\ x = lj.upc_gtin
    \/ Truthy(lj.ref) /\ x = lj.ref

\* the trimmed value of the k-th input field
TrimmedValue(k) == trim(ValueOf(fields[k]))

\* the lines of a text: the pieces between its newlines
LinesOf(text) ==
    LET cut == {0, Len(text) + 1} \cup {k \in 1..Len(text) : text[k] = "\n"}
    IN  {SubSeq(text, a + 1, b - 1) :
            <<a, b>> \in {ab \in cut \X cut :
                              /\ ab[1] < ab[2]
                              /\ \A c \in cut : ~(ab[1] < c /\ c < ab[2])}}

\* C1: in every returned record neither batch_no nor lot_no equals a non-empty
\* upc_gtin or a non-empty ref, whichever step filled them in.
C1_BatchLotNeverIdOrRef ==
    Returned => \A k \in BatchLotKeys : ~CollidesWith(labelJson, labelJson[k])

\* C1 witness: the GS1 decode gave a batch that equals the reference taken from
\* a short barcode, and the returned record has batch_no and lot_no cleared.
C1_Witness ==
    /\ Returned
    /\ gs1.found
    /\ Truthy(gs1.batch_no)
    /\ labelJson.ref = gs1.batch_no
    /\ labelJson.batch_no = << >>
    /\ labelJson.lot_no = << >>

IsCanonicalExpiry(e) ==
    /\ Len(e) \in {7, 10}
    /\ \A k \in 1..Len(e) : IF k \in {5, 8} THEN e[k] = "-" ELSE e[k] \in Digit

\* C3 as stated: every non-empty expiry of a returned record is YYYY-MM or
\* YYYY-MM-DD.
C3_ExpiryCanonical ==
    (Returned /\ Truthy(labelJson.expiry)) => IsCanonicalExpiry(labelJson.expiry)

\* the k-th input field is a 'Batch/Lot (numeric)' field of six digits
IsSixDigitField(k) ==
    /\ fields[k].name = N_BatchLotNumeric
    /\ Len(TrimmedValue(k)) = 6
    /\ \A j \in 1..6 : TrimmedValue(k)[j] \in Digit

\* six digits that form a valid YYMMDD: month 01-12, day 01-31
IsValidYymmdd(v) ==
    /\ parseInt(SubSeq(v, 3, 4)) \in 1..12
    /\ parseInt(SubSeq(v, 5, 6)) \in 1..31

\* C4 as stated: the value of a 'Batch/Lot (numeric)' field that is a valid
\* YYMMDD goes to expiry only, so batch_no and lot_no of the returned record do
\* not carry it; six digits that are no valid YYMMDD, as the only field, fill
\* batch_no and lot_no and leave expiry empty.
C4_YymmddOnlyToExpiry ==
    Returned =>
        \A k \in 1..Len(fields) :
            IsSixDigitField(k) =>
                IF IsValidYymmdd(TrimmedValue(k))
                THEN /\ labelJson.batch_no # TrimmedValue(k)
                     /\ labelJson.lot_no # TrimmedValue(k)
                ELSE Len(fields) = 1 =>
                         /\ labelJson.batch_no = TrimmedValue(k)
                         /\ labelJson.lot_no = TrimmedValue(k)
                         /\ labelJson.expiry = << >>

\* the misreads of a Product code, as the claim lists them
KnownMisreads ==
    { <<"L","0","T">>, <<"L","T">>, <<"L","O","T">>, <<"E","X">>, <<"E","X","P">>,
      <<"E","1","P">>, <<"L","A","Y","0","U","T">>, <<"L","A","Y","U","T">>,
      <<"L","A","Y","O","U","T">> }

IsMisreadProductCode(k) ==
    /\ fields[k].name = N_ProductCode
    /\ (Len(TrimmedValue(k)) <= 3 \/ toUpperCase(TrimmedValue(k)) \in KnownMisreads)

\* the value of the k-th field is also the value of a field that is no misread
CarriedByAnotherField(k) ==
    \E j \in 1..Len(fields) : ~IsMisreadProductCode(j) /\ TrimmedValue(j) = TrimmedValue(k)

\* C5: a misread Product code is discarded: handling it changes no role of the
\* record and adds no line, and in the end its value is no role of the returned
\* record and its 'name: value' line is no line of the returned raw text.
C5_MisreadDiscarded ==
    /\ [][(pc = "loop" /\ idx <= Len(fields) /\ IsMisreadProductCode(idx)) =>
              (labelJson' = labelJson /\ lines' = lines)]_vars
    /\ [](Returned =>
              \A k \in 1..Len(fields) :
                  (IsMisreadProductCode(k) /\ Truthy(TrimmedValue(k)) /\ ~CarriedByAnotherField(k)) =>
                      /\ \A key \in DOMAIN labelJson : labelJson[key] # TrimmedValue(k)
                      /\ LineOf(fields[k]) \notin LinesOf(raw))

\* C5 witness: a misread of more than three characters came before a field that
\* fills a role, and the returned raw text holds one line only.
C5_Witness ==
    /\ Returned
    /\ Len(fields) = 2
    /\ IsMisreadProductCode(1)
    /\ Len(TrimmedValue(1)) > 3
    /\ fields[2].name = N_LotNo
    /\ labelJson.lot_no = TrimmedValue(2)
    /\ LinesOf(raw) = {LineOf(fields[2])}

\* C6 as stated: after a successful decode, batch_no, lot_no and expiry of the
\* returned record are the values the decode gave for them.
C6_DecodedValuesReturned ==
    (Returned /\ gs1.found) =>
        \A k \in {"batch_no", "lot_no", "expiry"} :
            Truthy(gs1[k]) => labelJson[k] = gs1[k]

DecodedKeys == {"batch_no", "lot_no", "expiry"}

\* C6 as amended: the decode step overrides each of batch_no, lot_no and expiry
\* for which the decode gave a non-empty value and leaves the others as the
\* fields set them; the returned record has the decoded expiry, and the decoded
\* batch_no and lot_no unless they equal its upc_gtin or ref, which clears them.
C6_NonEmptyDecodedValuesWin ==
    /\ [][pc = "decode" =>
              \A k \in DecodedKeys :
                  labelJson'[k] = IF gs1'.found /\ Truthy(gs1'[k])
                                  THEN gs1'[k] ELSE labelJson[k]]_vars
    /\ [](Returned =>
              /\ Truthy(gs1.expiry) => labelJson.expiry = gs1.expiry
              /\ \A k \in BatchLotKeys :
                     Truthy(gs1[k]) =>
                         labelJson[k] = IF CollidesWith(labelJson, gs1[k])
                                        THEN << >> ELSE gs1[k])

\* C6 witness: a 'Lot no' field came after the barcode, and the returned record
\* has the decoded lot and the decoded expiry, not what the field gave.
C6_Witness ==
    /\ Returned
    /\ Len(fields) = 2
    /\ fields[1].name = N_Barcode
    /\ fields[2].name = N_LotNo
    /\ gs1.found
    /\ Truthy(gs1.lot_no)
    /\ gs1.lot_no # TrimmedValue(2)
    /\ labelJson.lot_no = gs1.lot_no
    /\ labelJson.expiry = gs1.expiry

\* a barcode value that can be the primary GS1 barcode: at least 20 characters
\* that are no whitespace, with 01 and 14 digits among them
IsPrimaryCandidate(val) ==
    LET t == StripWs(val)
    IN  /\ Len(t) >= 20
        /\ \E i \in 1..(Len(t) - 15) :
               /\ t[i] = "0"
               /\ t[i + 1] = "1"
               /\ \A j \in (i + 2)..(i + 15) : t[j] \in Digit

\* the positions of the Barcode fields in the input
BarcodeFields == {k \in 1..Len(fields) : fields[k].name = N_Barcode}

PrimaryCandidates == {k \in BarcodeFields : IsPrimaryCandidate(TrimmedValue(k))}

FirstIn(S) == CHOOSE k \in S : \A j \in S : k <= j

\* the positions of the Barcode fields whose value is 5 to 7 digits
ShortBarcodes ==
    {k \in BarcodeFields :
        LET t == StripWs(TrimmedValue(k))
        IN  Len(t) \in 5..7 /\ \A j \in 1..Len(t) : t[j] \in Digit}

\* the positions of the fields that set ref
RefFields == {k \in 1..Len(fields) : fields[k].name = N_RefNo}

\* ref as the fields set it: the value of the last one of them
RefOfFields == IF RefFields = {} THEN Undef ELSE TrimmedValue(CHOOSE k \in RefFields : \A j \in RefFields : j <= k)

\* the longest value of the Barcode fields, the first one among equals
LongestBarcode ==
    TrimmedValue(CHOOSE k \in BarcodeFields :
                     \A j \in BarcodeFields :
                         \/ Len(TrimmedValue(j)) < Len(TrimmedValue(k))
                         \/ Len(TrimmedValue(j)) = Len(TrimmedValue(k)) /\ k <= j)

IsDecodedBatch(k) == gs1.found /\ gs1.batch_no = TrimmedValue(k)

\* the value of the k-th field is also the value of a field that is no barcode
CarriedByTextField(k) ==
    \E j \in 1..Len(fields) : j \notin BarcodeFields /\ TrimmedValue(j) = TrimmedValue(k)

\* C8 as stated: the value of a Barcode field is neither batch_no nor lot_no of
\* the returned record, unless the decode gave it as the batch (or a field that
\* is no barcode carries the same value).
C8_BarcodeNeverBatchLot ==
    Returned =>
        \A k \in BarcodeFields :
            (Truthy(TrimmedValue(k)) /\ ~IsDecodedBatch(k) /\ ~CarriedByTextField(k)) =>
                /\ labelJson.batch_no # TrimmedValue(k)
                /\ labelJson.lot_no # TrimmedValue(k)

IsDigits(s, lo, hi) == Len(s) \in lo..hi /\ \A k \in 1..Len(s) : s[k] \in Digit

\* s without its first character when that is c
DropIf(s, c) == IF s # << >> /\ s[1] = c THEN Tail(s) ELSE s

\* what follows 01, with or without its brackets, in s; Undef when s does not
\* begin with it
AfterAi01(s) ==
    LET t == DropIf(s, "(")
    IN  IF Len(t) >= 2 /\ t[1] = "0" /\ t[2] = "1"
        THEN TrimStart(DropIf(SubSeq(t, 3, Len(t)), ")"))
        ELSE Undef

\* the states after the step that adopts the barcode as upc_gtin
AfterAdopt == pc \in {"raw", "serial", "final", "done"}

\* C9 as stated: without a decode, upc_gtin is the barcode value when that is 6
\* to 14 digits, the 14 digits when it is 01 (bracketed or not) and 14 digits,
\* and unset for any other barcode value.
C9_AdoptsPlainOrAi01With14 ==
    (AfterAdopt /\ ~gs1.found) =>
        labelJson.upc_gtin =
            IF IsDigits(barcodeValue, 6, 14) THEN barcodeValue
            ELSE IF IsDigits(AfterAi01(barcodeValue), 14, 14) THEN AfterAi01(barcodeValue)
            ELSE Undef

\* C9 as amended: when the decode gave no upc_gtin (there was no decode, or it
\* had no GTIN), upc_gtin is the 13 or 14 digits that follow 01 (bracketed or
\* not, whitespace allowed after it) when the barcode value has that form, else
\* the barcode value without its whitespace when that is 6 to 14 digits, and
\* unset for any other barcode value.
C9_AdoptsPlainOrAi01With13Or14 ==
    (AfterAdopt /\ ~Truthy(gs1.upc_gtin)) =>
        labelJson.upc_gtin =
            IF IsDigits(AfterAi01(barcodeValue), 13, 14) THEN AfterAi01(barcodeValue)
            ELSE IF IsDigits(StripWs(barcodeValue), 6, 14) THEN StripWs(barcodeValue)
            ELSE Undef

\* C9 witness: the barcode is (01) and 13 digits, nothing was decoded, and the
\* returned record has the 13 digits as upc_gtin.
C9_Witness ==
    /\ Returned
    /\ ~gs1.found
    /\ barcodeValue # << >>
    /\ barcodeValue[1] = "("
    /\ Len(AfterAi01(barcodeValue)) = 13
    /\ labelJson.upc_gtin = AfterAi01(barcodeValue)

\* the 'name: value' lines of the fields k.., without those of the misreads
RECURSIVE FieldLines(_)
FieldLines(k) ==
    IF k > Len(fields) THEN << >>
    ELSE IF IsMisreadProductCode(k) THEN FieldLines(k + 1)
    ELSE <<fields[k].name \o <<":", " ">> \o ValueOf(fields[k])>> \o FieldLines(k + 1)

\* the states after the step that builds the raw text
AfterRaw == pc \in {"serial", "final", "done"}

\* C10 as stated: the raw text is the 'name: value' lines of the fields that are
\* no misreads, in input order, joined by newlines, and nothing else.
C10_RawIsFieldLines == AfterRaw => raw = JoinNl(FieldLines(1))

\* the positions of the fields that set serial
SerialFields == {k \in 1..Len(fields) : fields[k].name = N_SerialNo}

\* serial when the raw text is built: the decoded one, else the value of the
\* last field that sets it
SerialBeforeRaw ==
    IF gs1.found /\ Truthy(gs1.serial) THEN gs1.serial
    ELSE IF SerialFields = {} THEN Undef
    ELSE TrimmedValue(CHOOSE k \in SerialFields : \A j \in SerialFields : j <= k)

\* C10 as amended: the raw text is those lines and, when a field or the decode
\* gave a serial, one more line after them, 'Serial: ' and the serial.
C10_RawIsFieldLinesAndSerial ==
    AfterRaw =>
        raw = JoinNl(FieldLines(1)
                     \o IF Truthy(SerialBeforeRaw)
                        THEN << <<"S","e","r","i","a","l",":"," ">> \o SerialBeforeRaw >>
                        ELSE << >>)

\* C10 witness: a misread came before a 'Serial no' field, and the returned raw
\* text is the line of that field and the Serial line.
C10_Witness ==
    /\ Returned
    /\ Len(fields) = 2
    /\ IsMisreadProductCode(1)
    /\ fields[2].name = N_SerialNo
    /\ raw = LineOf(fields[2]) \o <<"\n">> \o <<"S","e","r","i","a","l",":"," ">> \o TrimmedValue(2)

(***************************************************************************)
(* labelFormats: the registry of OCR label formats.  Its normalizeExpiry   *)
(* is a function of its own, with the name of the mapper's.                *)
(***************************************************************************)
\* the table mon of normalizeExpiry, read with an upper-cased month name
mon(name) == padStart2(NumToStr(CHOOSE k \in 1..12 : MonthNames[k] = toUpperCase(name)))

\* `${m[y]}-${mon[m[k].toUpperCase()]}` on a match m, Skip without a match
YearMon(m, s, y, k) == IF m.ok THEN Group(m, s, y) \o <<"-">> \o mon(Group(m, s, k)) ELSE Skip

\* `${slash[3]}-${slash[1].padStart(2, '0')}-${slash[2].padStart(2, '0')}`.slice(0, 7)
SlashDate(m, s) ==
    IF m.ok
    THEN slice(Group(m, s, 3) \o <<"-">> \o padStart2(Group(m, s, 1)) \o <<"-">>
               \o padStart2(Group(m, s, 2)), 0, 7)
    ELSE Skip

labelFormats_normalizeExpiry(text) ==
    FirstOf(<< YearMon(exec(Cat(<<Bol, Cap(1, Dn(4, 4)), Ch({"-"}), Cap(2, MonthAltI), Eol>>),
                            text), text, 1, 2),
               YearMon(exec(Cat(<<Bol, Cap(1, MonthAltI), Plus(Sp), Cap(2, Dn(4, 4)), Eol>>),
                            text), text, 2, 1),
               YearMon(exec(Cat(<<Bol, Cap(1, MonthAltI), Cap(2, Dn(4, 4)), Eol>>), text),
                       text, 2, 1),
               SlashDate(exec(Re_mmDdYyyy, text), text),
               YearMonth(exec(Re_mmYyyy, text), text, 2, 1),
               YearMonth(exec(Re_yyyyMmSlash, text), text, 1, 2) >>,
            text)

\* s.match(r) with the g flag: m[0] of the match m and of every match after it
RECURSIVE MatchAllFrom(_, _, _)
MatchAllFrom(r, s, m) ==
    IF ~m.ok THEN << >>
    ELSE <<Whole(m, s)>>
         \o MatchAllFrom(r, s, ExecFrom(r, s, IF m.e > m.b THEN m.e ELSE m.e + 1))

matchAll(r, s) == MatchAllFrom(r, s, exec(r, s))

\* s.replace(/-/g, '').replace(/\//g, '') and the like
Without(s, cs) == SelectSeq(s, LAMBDA c : c \notin cs)

startsWith(s, p) == Len(p) <= Len(s) /\ SubSeq(s, 1, Len(p)) = p

\* x ?? ''
OrEmpty(x) == IF x = Undef THEN << >> ELSE x

\* ss.sort((a, b) => b.length - a.length)[0]: the first of the longest strings
Longest(ss) ==
    IF ss = << >> THEN Undef
    ELSE ss[Least({k \in 1..Len(ss) : \A j \in 1..Len(ss) : Len(ss[j]) <= Len(ss[k])})]

\* m[k] of a match m, undefined without a match
GroupOrUndef(m, s, k) == IF m.ok THEN Group(m, s, k) ELSE Undef

\* out, the LabelFormatResult of a matcher; a field that was not set is undefined
Out(batch_no, lot_no, expiry) == [batch_no |-> batch_no, lot_no |-> lot_no, expiry |-> expiry]

\* t.match(/\d{4}-\d{2}(-\d{2})?/) and [0].slice(0, 7)
ExpiryYyyyMm(m, t) == IF m.ok THEN slice(Whole(m, t), 0, 7) ELSE Undef

Re_expiryYyyyMm ==
    Cat(<<Dn(4, 4), Ch({"-"}), Dn(2, 2), Opt(Cap(1, Cat(<<Ch({"-"}), Dn(2, 2)>>)))>>)

\* t.match(/\b([A-Za-z][A-Za-z0-9]{2,7})\b/g)?.find(...) and toUpperCase()
BatchWord(words) ==
    IF \E k \in 1..Len(words) : \E i \in 1..Len(words[k]) : words[k][i] \in Digit
    THEN toUpperCase(Find(words, [k \in 1..Len(words) |->
                                     \E i \in 1..Len(words[k]) : words[k][i] \in Digit]))
    ELSE Undef

Re_word == Cat(<<Wb, Cap(1, Cat(<<Ch(Alpha), Rep(AN, 2, 7)>>)), Wb>>)

\* t.match(/\b(\d{3,5})\b/g)?.find((s) => s !== out.lot_no && !expiryDigits.startsWith(s))
Digit3to5(ds, lot_no, expiryDigits) ==
    Find(ds, [k \in 1..Len(ds) |-> ds[k] # lot_no /\ ~startsWith(expiryDigits, ds[k])])

Re_digit3to5 == Cat(<<Wb, Cap(1, Dn(3, 5)), Wb>>)

\* the digit strings that are kept: the filter of gs1Style, and the one of fallback
KeptDigits(ds, expiryDigits, prefixes) ==
    SelectSeq(ds, LAMBDA s : s # expiryDigits /\ (prefixes => ~startsWith(expiryDigits, s)))

\* the lot of gs1Style: "Lot No." and digits, else the longest digit string
Gs1StyleLot(lotMatch, t, expiry) ==
    IF lotMatch.ok THEN Group(lotMatch, t, 1)
    ELSE Longest(KeptDigits(matchAll(Dn(6, 14), t), Without(OrEmpty(expiry), {"-"}), FALSE))

Re_lotNo ==
    Cat(<<LitI(<<"L","o","t">>), Star(Sp), LitI(<<"N","o">>), Opt(Dot), Star(Sp), Opt(Colon),
          Star(Sp), Cap(1, Dn(6, 14))>>)

gs1Style(t) ==
    Out(BatchWord(matchAll(Re_word, t)),
        Gs1StyleLot(exec(Re_lotNo, t), t, ExpiryYyyyMm(exec(Re_expiryYyyyMm, t), t)),
        ExpiryYyyyMm(exec(Re_expiryYyyyMm, t), t))

\* normalizeExpiry(m[1]) of a match m, undefined without a match
NormalizedGroup(m, t) == IF m.ok THEN labelFormats_normalizeExpiry(Group(m, t, 1)) ELSE Undef

SixDigitOut(sixDigit, t, expiry) ==
    Out(GroupOrUndef(sixDigit, t, 1), GroupOrUndef(sixDigit, t, 1), expiry)

numericLotYyyyMmm(t) ==
    SixDigitOut(exec(Cat(<<Wb, Cap(1, Dn(6, 6)), Wb>>), t), t,
                NormalizedGroup(exec(Cat(<<Wb, Cap(1, Cat(<<Dn(4, 4), Ch({"-"}), MonthAltI>>)),
                                           Wb>>), t), t))

\* EXP\s+
ExpSp == Cat(<<LitI(<<"E","X","P">>), Plus(Sp)>>)

\* normalizeExpiry(`${m[1]} ${m[2]}`), or without the blank, undefined without a match
NormalizedGroups(m, t, between) ==
    IF m.ok THEN labelFormats_normalizeExpiry(Group(m, t, 1) \o between \o Group(m, t, 2))
    ELSE Undef

\* the expiry of lotExpMmmYyyy: the second pattern is tried when the first gave none
ExpMmmYyyy(expiry, t) ==
    IF Truthy(expiry) THEN expiry
    ELSE NormalizedGroups(exec(Cat(<<ExpSp, Cap(1, MonthAltI), Cap(2, Dn(4, 4))>>), t), t, << >>)

lotExpMmmYyyy(t) ==
    Out(Undef,
        GroupOrUndef(exec(Cat(<<LitI(<<"L","O","T">>), Plus(Sp), Cap(1, Dn(6, 6))>>), t), t, 1),
        ExpMmmYyyy(NormalizedGroups(exec(Cat(<<ExpSp, Cap(1, MonthAltI), Plus(Sp),
                                               Cap(2, Dn(4, 4))>>), t), t, <<" ">>), t))

\* lotNum[1].trim()
TrimmedGroup(m, t) == IF m.ok THEN trim(Group(m, t, 1)) ELSE Undef

lotNumberExpirationDate(t) ==
    Out(Undef,
        TrimmedGroup(exec(Cat(<<LitI(<<"L","O","T">>), Star(Sp),
                                LitI(<<"N","U","M","B","E","R">>), Star(Sp), Opt(Colon), Star(Sp),
                                Cap(1, Rep(AN, 6, 15))>>), t), t),
        NormalizedGroup(exec(Cat(<<LitI(<<"E","X","P","I","R","A","T","I","O","N">>), Star(Sp),
                                   LitI(<<"D","A","T","E">>), Star(Sp), Opt(Colon), Star(Sp),
                                   Cap(1, Cat(<<Dn(4, 4), Ch({"/"}), Dn(1, 2)>>))>>), t), t))

\* /LOT\s*#?\s*:?\s*([A-Za-z0-9]{4,14})/i
Re_lotHash ==
    Cat(<<LitI(<<"L","O","T">>), Star(Sp), Opt(Ch({"#"})), Star(Sp), Opt(Colon), Star(Sp),
          Cap(1, Rep(AN, 4, 14))>>)

\* (\d{1,2}\/\d{4})
MmSlashYyyy == Cap(1, Cat(<<Dn(1, 2), Ch({"/"}), Dn(4, 4)>>))

\* /(?:EXP?\.?\s*:?\s*)?(\d{1,2}\/\d{4})(?:\s|$)/i
Re_expSlash ==
    Cat(<<Opt(Cat(<<LitI(<<"E","X">>), Opt(LitI(<<"P">>)), Opt(Dot), Star(Sp), Opt(Colon),
                    Star(Sp)>>)),
          MmSlashYyyy, Alt(<<Sp, Eol>>)>>)

\* lotMatch[1].toUpperCase()
UpperGroup(m, t) == IF m.ok THEN toUpperCase(Group(m, t, 1)) ELSE Undef

\* a ?? b of two matches
Either(a, b) == IF a.ok THEN a ELSE b

\* the batch of lotHashExpSlash, from its lot and its expiry
LotHashExpSlashOut(lot_no, expiry, t) ==
    Out(Digit3to5(matchAll(Re_digit3to5, t), lot_no, Without(OrEmpty(expiry), {"-", "/"})),
        lot_no, expiry)

lotHashExpSlash(t) ==
    LotHashExpSlashOut(UpperGroup(exec(Re_lotHash, t), t),
                       NormalizedGroup(Either(exec(Re_expSlash, t), exec(MmSlashYyyy, t)), t),
                       t)

\* the expiry of fallback
FallbackExpiry(expiryYyyyMm, expirySlash, t) ==
    IF expiryYyyyMm.ok THEN slice(Whole(expiryYyyyMm, t), 0, 7)
    ELSE NormalizedGroup(expirySlash, t)

\* the lot of fallback, from its expiry
FallbackLot(lotLothash, t, expiryDigits) ==
    IF lotLothash.ok THEN toUpperCase(Group(lotLothash, t, 1))
    ELSE Longest(KeptDigits(matchAll(Dn(6, 14), t), expiryDigits, TRUE))

\* the batch of fallback, from its lot and its expiry
FallbackBatch(batch, t, lot_no, expiryDigits) ==
    IF batch # Undef THEN batch
    ELSE Digit3to5(matchAll(Re_digit3to5, t), lot_no, expiryDigits)

FallbackOut(lot_no, expiry, t) ==
    Out(FallbackBatch(BatchWord(matchAll(Re_word, t)), t, lot_no,
                      Without(OrEmpty(expiry), {"-", "/"})),
        lot_no, expiry)

FallbackWith(expiry, t) ==
    FallbackOut(FallbackLot(exec(Re_lotHash, t), t, Without(OrEmpty(expiry), {"-", "/"})),
                expiry, t)

fallback(t) ==
    FallbackWith(FallbackExpiry(exec(Re_expiryYyyyMm, t), exec(MmSlashYyyy, t), t), t)

\* format.extract(t)
extract(format, t) ==
    CASE format = "gs1_style" -> gs1Style(t)
      [] format = "numeric_lot_yyyy_mmm" -> numericLotYyyyMmm(t)
      [] format = "lot_exp_mmm_yyyy" -> lotExpMmmYyyy(t)
      [] format = "lot_number_expiration_date" -> lotNumberExpirationDate(t)
      [] format = "lot_hash_exp_slash" -> lotHashExpSlash(t)
      [] format = "fallback" -> fallback(t)

\* x?.trim() is truthy
TruthyTrimmed(x) == x # Undef /\ trim(x) # << >>

score(result) ==
    (IF TruthyTrimmed(result.batch_no) THEN 1 ELSE 0)
    + (IF TruthyTrimmed(result.lot_no) THEN 1 ELSE 0)
    + (IF TruthyTrimmed(result.expiry) THEN 1 ELSE 0)

\* the positions of s that replace(/\s+/g, ' ') keeps: the first of each run of whitespace
KeptPositions(s) ==
    SelectSeq([k \in 1..Len(s) |-> k],
              LAMBDA k : s[k] \notin Space \/ k = 1 \/ s[k - 1] \notin Space)

\* ocrText.replace(/\s+/g, ' ').trim()
CollapseWs(s) ==
    trim([j \in 1..Len(KeptPositions(s)) |->
              IF s[KeptPositions(s)[j]] \in Space THEN " " ELSE s[KeptPositions(s)[j]]])

\* ocrText.split(/\r?\n/): the trim that follows drops a \r the model leaves at a line's end
RECURSIVE split(_)
split(s) ==
    IF \E k \in 1..Len(s) : s[k] = "\n"
    THEN <<SubSeq(s, 1, Least({k \in 1..Len(s) : s[k] = "\n"}) - 1)>>
         \o split(SubSeq(s, Least({k \in 1..Len(s) : s[k] = "\n"}) + 1, Len(s)))
    ELSE <<s>>

\* lines[0]?.match(/^[A-Z0-9]{2,10}$/i)?.[0]
FirstLineOf(ls) ==
    IF ls # << >> /\ test(Cat(<<Bol, Rep(AN, 2, 10), Eol>>), ls[1]) THEN ls[1] ELSE Undef

firstLine(ocrText) ==
    FirstLineOf(SelectSeq([k \in 1..Len(split(ocrText)) |-> trim(split(ocrText)[k])],
                          LAMBDA l : l # << >>))

\* the loop body with >= for >: the last of the best results wins
Better_orEqual(best, bestScore, result, s) ==
    IF s >= bestScore THEN [best |-> result, bestScore |-> s]
    ELSE [best |-> best, bestScore |-> bestScore]

\* the loop body: a result replaces best when its score is higher
Better(best, bestScore, result, s) ==
    IF s > bestScore THEN [best |-> result, bestScore |-> s]
    ELSE [best |-> best, bestScore |-> bestScore]

\* the pass over the first line
WithFirstLine(best, first) ==
    IF ~Truthy(best.batch_no) /\ Truthy(first) /\ best.lot_no # first /\ best.expiry # first
    THEN [best EXCEPT !.batch_no = first]
    ELSE best

\* the record extractLabelFromOcr returns
Trimmed(best) ==
    [batch_no |-> trim(OrEmpty(best.batch_no)), lot_no |-> trim(OrEmpty(best.lot_no)),
     expiry |-> trim(OrEmpty(best.expiry))]

(***************************************************************************)
(* The functions called on their own: one call of parseConcatenatedGs1 or  *)
(* of parseGs1ToLabelJson on a payload, of a normaliser on an expiry (and  *)
(* again on what it returned), or of extractLabelFromOcr on a label text,  *)
(* while no call of scanditFieldsToLabelJson is running.                   *)
(***************************************************************************)
MapperIdle ==
    /\ fields = << >>
    /\ pc = "idle"
    /\ idx = 1
    /\ labelJson = [batch_no |-> << >>, lot_no |-> << >>, expiry |-> << >>,
                    upc_gtin |-> Undef, serial |-> Undef, ref |-> Undef]
    /\ lines = << >>
    /\ barcodeValues = << >>
    /\ longGs1 = Undef
    /\ shortBarcode = Undef
    /\ barcodeValue = << >>
    /\ gs1 = Gs1Null
    /\ parsed = NotParsed
    /\ raw = << >>

\* the payload of the concatenated example: 01 + GTIN, 21 + serial, 17 + YYMMDD, 10 + batch
P_Concatenated ==
    <<"0","1","0","0","3","5","0","1","1","1","5","6","1","0","1","4","2","1","1","0","1","0",
      "4","5","4","1","5","1","4","8","1","2","1","7","2","7","0","5","3","1","1","0","7","9",
      "8","1","0","5","5">>

\* the bracketed AI stream
P_Bracketed ==
    <<"(","0","1",")","1","2","3","4","5","6","7","8","9","0","1","2","3","1","(","1","7",")",
      "2","7","1","2","3","1","(","1","0",")","A","B","C","1","2","3","(","2","1",")","S","N",
      "4","2">>

\* the same elements with the group separator after the batch
P_Separated ==
    <<"0","1","1","2","3","4","5","6","7","8","9","0","1","2","3","1","1","7","2","7","1","2",
      "3","1","1","0","A","B","C","1","2","3",GS,"2","1","S","N","4","2">>

\* the same with the pipe for the group separator
P_Piped ==
    <<"0","1","1","2","3","4","5","6","7","8","9","0","1","2","3","1","|","1","0","A","B","C",
      "|","2","1","S","N","4","2">>

\* 01 + GTIN alone: 16 characters
P_GtinOnly == <<"0","1","1","2","3","4","5","6","7","8","9","0","1","2","3","1">>

\* 21 + serial alone
P_SerialOnly == <<"2","1","S","N","4","2">>

\* 01 + a GTIN that reads 17 + six digits + 10, then 21 + serial
P_GtinLikeExpiry ==
    <<"0","1","1","7","2","7","0","5","3","1","1","0","1","2","3","4","2","1","S","N","4","2",
      "1","2">>

\* 24 letters: no AI at all
P_NoAi ==
    <<"A","B","C","D","E","F","G","H","I","J","K","L","M","N","O","P","Q","R","S","T","U","V",
      "W","X">>

\* blanks between the elements
P_Spaced ==
    <<"0","1"," ","1","2","3","4","5","6","7","8","9","0","1","2","3","1"," ","1","7"," ","2",
      "7","1","2","3","1"," ","1","0"," ","A","B","7">>

\* 01 + GTIN, 17 + yy0531, 10 + batch, for every year yy
P_Year(yy) ==
    <<"0","1","0","0","3","5","0","1","1","1","5","6","1","0","1","4","1","7">> \o yy
    \o <<"0","5","3","1","1","0","A","B","1","2">>

TwoDigits == {<<a, b>> : a \in Digit, b \in Digit}

\* 01 + GTIN, 17 + 270228, 10 + MK8701, 21 + serial
P_BatchThenSerial ==
    <<"0","1","0","0","3","5","0","1","1","1","5","6","1","0","1","4","1","7","2","7","0",
      "2","2","8","1","0","M","K","8","7","0","1","2","1","9","4","3","3","2","1","3","6",
      "1","9","1","8">>

\* a batch with 21 inside it, then 21 + serial
P_Batch21Inside ==
    <<"1","7","2","7","0","2","2","8","1","0","A","B","2","1","C","D","2","1","S","N","4",
      "2","1","2">>

\* a batch that starts with 21, then 21 + serial
P_BatchStarts21 ==
    <<"1","7","2","7","0","2","2","8","1","0","2","1","X","2","1","S","N","4","2","1","2",
      "3">>

Gs1Strings ==
    {P_Concatenated, P_Bracketed, P_Separated, P_Piped, P_GtinOnly, P_SerialOnly,
     P_GtinLikeExpiry, P_NoAi, P_Spaced, P_BatchThenSerial, P_Batch21Inside, P_BatchStarts21,
     << >>, <<" ", " ">>, <<"|">>}
    \cup {P_Year(yy) : yy \in TwoDigits}

\* a call with something that is not a string
Gs1Inputs == Gs1Strings \cup {Undef}

Years == {<<"2","0","2","7">>, <<"1","9","9","9">>, <<"2","0","5","1">>}

\* the month k and the year y in the notations YYYY-MMM, MMM YYYY, MMMYYYY, MM/YYYY,
\* YYYY/MM and MM/YY
SixNotations(k, y) ==
    << y \o <<"-">> \o MonthNames[k],
       MonthNames[k] \o <<" ">> \o y,
       MonthNames[k] \o y,
       padStart2(NumToStr(k)) \o <<"/">> \o y,
       y \o <<"/">> \o padStart2(NumToStr(k)),
       padStart2(NumToStr(k)) \o <<"/">> \o SubSeq(y, 3, 4) >>

\* YYYY-MM and YYYY-MM-DD
CanonicalExpiries ==
    {y \o <<"-">> \o padStart2(NumToStr(k)) : y \in Years, k \in 1..12}
    \cup {y \o <<"-">> \o padStart2(NumToStr(k)) \o <<"-">> \o dd :
              y \in Years, k \in 1..12, dd \in {<<"0","1">>, <<"3","1">>}}

\* MM/YY for every year, with months inside and outside 1..12
MmYyExpiries ==
    {mm \o <<"/">> \o yy :
        mm \in {<<"0","3">>, <<"1","2">>, <<"1">>, <<"1","3">>, <<"0","0">>}, yy \in TwoDigits}

\* MM/DD/YYYY, the month and the day with one digit or two
MmDdYyyy(mm, dd, y) == mm \o <<"/">> \o dd \o <<"/">> \o y

MonthDigits == {<<"0","3">>, <<"3">>, <<"1","2">>}

DayDigits == {<<"1","5">>, <<"5">>, <<"3","1">>}

MmDdYyyyExpiries == {MmDdYyyy(mm, dd, y) : mm \in MonthDigits, dd \in DayDigits, y \in Years}

\* the dates of the SDK: day, month and year, each written as its number or as null
DateInputs ==
    {<<d, m, y>> : d \in {"null", "5", "31"}, m \in {"null", "3", "12"},
                   y \in {"null", "2027", "27"}}

\* the number or null that s is written for
Nullable(s) == IF s = "null" THEN {} ELSE {CHOOSE n \in 0..2027 : ToString(n) = s}

ExpiryInputs ==
    {SixNotations(k, y)[n] : k \in 1..12, y \in Years, n \in 1..6}
    \cup CanonicalExpiries
    \cup MmYyExpiries
    \cup MmDdYyyyExpiries
    \cup {<< >>,
     <<" ","2","0","2","7","-","M","A","R"," ">>,
     <<"2","0","2","7","-","m","a","r">>,
     <<"M","a","r"," ","2","0","2","7">>,
     <<"M","A","R"," "," ","2","0","2","7">>,
     <<"0","3","/","1","5","/","2","0","2","7">>,
     <<"3","/","5","/","2","0","2","7">>,
     <<"1","5","-","0","3","-","2","0","2","7">>,
     <<"3","/","2","0","2","7">>,
     <<"2","0","2","7">>,
     <<"N","/","A">>,
     <<"2","0","2","7","-","1","3">>,
     <<"1","3","/","2","0","2","7">>,
     <<"2","0","2","7","/","3">>,
     <<"2","0","2","7","-","3">>,
     <<"2","0","2","7","-","1","2","-","3","1"," ">>}

\* the example: "Lot No." and "Exp." with YYYY-MM
T_LotNoExp ==
    <<"L","o","t"," ","N","o",".",":"," ","2","0","0","5","4","1","3","8","\n","E","x","p",
      ".",":"," ","2","0","2","7","-","0","2">>

\* the same under a product code
T_ProductCode ==
    <<"B","0","Z","7","\n","L","o","t"," ","N","o",".",":"," ","2","0","0","5","4","1","3",
      "8","\n","E","x","p",".",":"," ","2","0","2","7","-","0","2">>

\* six digits and YYYY-MMM
T_SixDigits ==
    <<"4","0","2","6","5","5","\n","2","0","2","7","-","M","A","R">>

\* LOT and EXP MMM YYYY
T_LotExp ==
    <<"L","O","T"," ","6","9","3","4","5","3","\n","E","X","P"," ","M","A","R"," ","2","0",
      "2","7">>

\* the same without the blank, with more whitespace
T_LotExpNoSpace ==
    <<" ","L","O","T"," "," "," ","6","9","3","4","5","3"," ","\r","\n"," ","E","X","P"," ",
      " ","M","A","R","2","0","2","7"," ">>

\* LOT NUMBER and EXPIRATION DATE
T_LotNumber ==
    <<"L","O","T"," ","N","U","M","B","E","R",":"," ","F","8","0","9","X","A","0","1","X",
      "\n","E","X","P","I","R","A","T","I","O","N"," ","D","A","T","E",":"," ","2","0","2",
      "8","/","0","5">>

\* LOT #, EXP MM/YYYY and a batch of four digits
T_LotHash ==
    <<"L","O","T"," ","#"," ","2","5","0","7","6","7","C","\n","E","X","P"," ","1","2","/",
      "2","0","2","6","\n","1","0","0","4">>

\* two formats read different lots with the same score
T_LotNoJoined ==
    <<"L","o","t","N","o","1","2","3","4","5","6"," ","2","0","2","7","-","0","2">>

\* a first line above a lot
T_FirstLine ==
    <<"X","Y","\n","L","o","t"," ","N","o",".",":"," ","2","0","0","5","4","1","3","8">>

\* one word
T_Word ==
    <<"A","B","C","1","2","3">>

\* an expiry alone
T_YearOnly ==
    <<"2","0","2","7","-","0","2"," ","A","B","C">>

\* nothing to read
T_Nothing ==
    <<"h","e","l","l","o"," ","w","o","r","l","d">>

OcrInputs ==
    {T_LotNoExp, T_ProductCode, T_SixDigits, T_LotExp, T_LotExpNoSpace, T_LotNumber,
     T_LotHash, T_LotNoJoined, T_FirstLine, T_Word, T_YearOnly, T_Nothing, << >>}

Normalizers == {"normalizeExpiryForMapping", "normalizeExpiry", "labelFormats.normalizeExpiry"}

\* the normaliser n applied to x
Normalize(n, x) ==
    CASE n = "normalizeExpiryForMapping" -> normalizeExpiryForMapping(x)
      [] n = "normalizeExpiry" -> normalizeExpiry(x)
      [] n = "labelFormats.normalizeExpiry" -> labelFormats_normalizeExpiry(x)

\* the value of op after the second call of the normaliser n
Again(n) ==
    CASE n = "normalizeExpiryForMapping" -> "normalizeExpiryForMapping twice"
      [] n = "normalizeExpiry" -> "normalizeExpiry twice"
      [] n = "labelFormats.normalizeExpiry" -> "labelFormats.normalizeExpiry twice"

InitCalls ==
    /\ MapperIdle
    /\ op = "idle"
    /\ arg \in Gs1Inputs \cup ExpiryInputs \cup OcrInputs \cup DateInputs
    /\ res = NotReturned
    /\ Loaded
    /\ AppIdle

CallParseConcatenatedGs1 ==
    /\ op = "idle"
    /\ arg \in Gs1Strings
    /\ op' = "parseConcatenatedGs1"
    /\ res' = parseConcatenatedGs1(arg)
    /\ UNCHANGED <<arg, mapperVars, moduleVars, history>>
    /\ UNCHANGED appVars

CallParseGs1ToLabelJson ==
    /\ op = "idle"
    /\ arg \in Gs1Inputs
    /\ op' = "parseGs1ToLabelJson"
    /\ \E lib \in ParserAnswers(parser, preprocess(arg)) :
          /\ res' = parseGs1WithLib(arg, lib)
          /\ parser' = ParserAfter(parser, preprocess(arg), lib)
    /\ UNCHANGED <<arg, mapperVars, lastIndex, registry, history>>
    /\ UNCHANGED appVars

\* one of the normalisers, called on an expiry
CallNormalize(n) ==
    /\ op = "idle"
    /\ arg \in ExpiryInputs
    /\ op' = n
    /\ res' = Normalize(n, arg)
    /\ UNCHANGED <<arg, mapperVars, moduleVars, history>>
    /\ UNCHANGED appVars

\* the same normaliser, called on what it returned
CallNormalizeAgain(n) ==
    /\ op = n
    /\ op' = Again(n)
    /\ res' = Normalize(n, res)
    /\ UNCHANGED <<arg, mapperVars, moduleVars, history>>
    /\ UNCHANGED appVars

\* formatExpiry, called on a date of the SDK
CallFormatExpiry ==
    /\ op = "idle"
    /\ arg \in DateInputs
    /\ op' = "formatExpiry"
    /\ res' = formatExpiry(Nullable(arg[1]), Nullable(arg[2]), Nullable(arg[3]))
    /\ UNCHANGED <<arg, mapperVars, moduleVars, history>>
    /\ UNCHANGED appVars

\* extractLabelFromOcr is called: nothing is best yet
CallExtractLabelFromOcr ==
    /\ op = "idle"
    /\ arg \in OcrInputs
    /\ op' = "extractLabelFromOcr: formats"
    /\ res' = [best |-> Out(Undef, Undef, Undef), bestScore |-> 0, next |-> 1]
    /\ UNCHANGED <<arg, mapperVars, moduleVars, history>>
    /\ UNCHANGED appVars

\* one iteration of the loop over LABEL_FORMATS
RunFormat ==
    /\ op = "extractLabelFromOcr: formats"
    /\ res.next <= Len(registry.LABEL_FORMATS)
    /\ res' = [next |-> res.next + 1]
              @@ Better(res.best, res.bestScore,
                        extract(registry.LABEL_FORMATS[res.next], CollapseWs(arg)),
                        score(extract(registry.LABEL_FORMATS[res.next], CollapseWs(arg))))
    /\ UNCHANGED <<op, arg, mapperVars, moduleVars, history>>
    /\ UNCHANGED appVars

\* the pass over the first line, and the return
ReturnExtracted ==
    /\ op = "extractLabelFromOcr: formats"
    /\ res.next > Len(registry.LABEL_FORMATS)
    /\ op' = "extractLabelFromOcr"
    /\ res' = Trimmed(WithFirstLine(res.best, firstLine(arg)))
    /\ UNCHANGED <<arg, mapperVars, moduleVars, history>>
    /\ UNCHANGED appVars

NextCalls ==
    \/ CallParseConcatenatedGs1
    \/ CallParseGs1ToLabelJson
    \/ \E n \in Normalizers : CallNormalize(n)
    \/ \E n \in Normalizers : CallNormalizeAgain(n)
    \/ CallFormatExpiry
    \/ CallExtractLabelFromOcr
    \/ RunFormat
    \/ ReturnExtracted

SpecCalls == InitCalls /\ [][NextCalls]_vars

(***************************************************************************)
(* A session: the modules are loaded once, then the engine's three         *)
(* operations are called one after another, each call running to its       *)
(* return before the next starts (the functions are synchronous).  The     *)
(* objects the modules hold, lastIndex of SERIAL_FROM_RAW_REGEX, the       *)
(* library's parser and the registries, live through the session.          *)
(***************************************************************************)
MaxCalls == 3

NoArg == <<"no argument">>

\* a serial that only the raw text holds
F_LotSN == [name |-> N_LotNo, value |-> V_SN]

\* a barcode that is decoded
F_BarcodeConcatenated == [name |-> N_Barcode, value |-> P_Concatenated]

SessionFieldLists == { <<F_LotSN>>, <<F_BarcodeConcatenated, F_LotSN>> }

SessionGs1Inputs == {P_Concatenated, P_Bracketed}

SessionOcrInputs == {T_LotNoExp, T_FirstLine}

InitSession ==
    /\ MapperIdle
    /\ op = "idle"
    /\ arg = NoArg
    /\ res = NotReturned
    /\ Loaded
    /\ AppIdle

\* the caller passes a string to parseGs1ToLabelJson or to extractLabelFromOcr
PassArgument ==
    /\ pc = "idle"
    /\ op = "idle"
    /\ arg = NoArg
    /\ Len(history) < MaxCalls
    /\ arg' \in SessionGs1Inputs \cup SessionOcrInputs
    /\ UNCHANGED <<op, res, mapperVars, moduleVars, history>>
    /\ UNCHANGED appVars

\* scanditFieldsToLabelJson is called: the locals its first lines create
CallScanditFieldsToLabelJson ==
    /\ pc = "idle"
    /\ op = "idle"
    /\ arg = NoArg
    /\ Len(history) < MaxCalls
    /\ fields' \in SessionFieldLists
    /\ arg' = fields'
    /\ op' = "scanditFieldsToLabelJson"
    /\ pc' = "loop"
    /\ UNCHANGED <<idx, labelJson, lines, barcodeValues, longGs1, shortBarcode, barcodeValue,
                   gs1, parsed, raw, res, moduleVars, history>>
    /\ UNCHANGED appVars

\* what the running call returns
OutputOfCall ==
    IF op = "scanditFieldsToLabelJson" THEN [labelJson |-> labelJson, raw |-> raw] ELSE res

\* the call returns: its locals are gone, the caller holds the input and the output
ReturnToCaller ==
    /\ \/ op = "scanditFieldsToLabelJson" /\ pc = "done"
       \/ op \in {"parseGs1ToLabelJson", "extractLabelFromOcr"}
    /\ history' = Append(history,
                         [fn |-> op, input |-> arg,
                          after |-> IF op = "scanditFieldsToLabelJson" THEN fields ELSE arg,
                          output |-> OutputOfCall])
    /\ fields' = << >>
    /\ pc' = "idle"
    /\ idx' = 1
    /\ labelJson' = [batch_no |-> << >>, lot_no |-> << >>, expiry |-> << >>,
                     upc_gtin |-> Undef, serial |-> Undef, ref |-> Undef]
    /\ lines' = << >>
    /\ barcodeValues' = << >>
    /\ longGs1' = Undef
    /\ shortBarcode' = Undef
    /\ barcodeValue' = << >>
    /\ gs1' = Gs1Null
    /\ parsed' = NotParsed
    /\ raw' = << >>
    /\ op' = "idle"
    /\ arg' = NoArg
    /\ res' = NotReturned
    /\ UNCHANGED moduleVars
    /\ UNCHANGED appVars

NextSession ==
    \/ PassArgument
    \/ CallParseGs1ToLabelJson
    \/ CallExtractLabelFromOcr
    \/ RunFormat
    \/ ReturnExtracted
    \/ CallScanditFieldsToLabelJson
    \/ FieldStep
    \/ SelectBarcode
    \/ DecodeBarcode
    \/ AdoptGtin
    \/ RawFallback
    \/ SerialFallback
    \/ Finalize
    \/ ReturnToCaller

SpecSession == InitSession /\ [][NextSession]_vars

(***************************************************************************)
(* Properties of the GS1 decoder.  What a payload holds is read off the    *)
(* payload itself, position by position.                                   *)
(***************************************************************************)
\* the characters lit stand at position i of t
At(t, i, lit) == i + Len(lit) - 1 <= Len(t) /\ SubSeq(t, i, i + Len(lit) - 1) = lit

\* n digits stand at position i of t
DigitsAt(t, i, n) == i + n - 1 <= Len(t) /\ \A k \in i..(i + n - 1) : t[k] \in Digit

\* the positions of t where AI 01 and 14 digits stand
GtinPositions(t) == {i \in 1..Len(t) : At(t, i, <<"0","1">>) /\ DigitsAt(t, i + 2, 14)}

\* the positions of t where AI 21 and a serial character stand
SerialPositions(t) ==
    {i \in 1..Len(t) : At(t, i, <<"2","1">>) /\ i + 2 <= Len(t) /\ t[i + 2] \in AlNum}

\* the positions of t where AI 17 and six digits stand
ExpiryPositions(t) == {i \in 1..Len(t) : At(t, i, <<"1","7">>) /\ DigitsAt(t, i + 2, 6)}

\* the positions of t where AI 17, six digits, AI 10 and a batch character stand
BatchPositions(t) ==
    {i \in ExpiryPositions(t) :
        At(t, i + 8, <<"1","0">>) /\ i + 10 <= Len(t) /\ t[i + 10] \in AlNum}

FoundAny(t) ==
    GtinPositions(t) \cup SerialPositions(t) \cup ExpiryPositions(t) \cup BatchPositions(t) # {}

\* the result r carries what was found in t
CarriesFound(r, t) ==
    /\ GtinPositions(t) # {} => r.upc_gtin = SubSeq(t, FirstIn(GtinPositions(t)) + 2,
                                                    FirstIn(GtinPositions(t)) + 15)
    /\ SerialPositions(t) # {} => r.serial # Undef
    /\ ExpiryPositions(t) # {} => r.expiry # << >>
    /\ BatchPositions(t) # {} => r.batch_no # << >> /\ r.lot_no = r.batch_no

FallbackReturned == op = "parseConcatenatedGs1"

\* C11 as stated: parseConcatenatedGs1 returns null if and only if none of GTIN, expiry,
\* batch and serial is found in the payload, and a result carries what was found.
C11_NullOnlyIfNothingFound ==
    FallbackReturned =>
        /\ res = Gs1Null <=> ~FoundAny(StripWs(arg))
        /\ res # Gs1Null => CarriesFound(res, StripWs(arg))

\* C11 amended: parseConcatenatedGs1 returns null if and only if the payload without its
\* whitespace has fewer than 20 characters or none of GTIN, expiry, batch and serial is
\* found in it; every other payload gives a result that carries what was found.
C11_NullIfShortOrNothingFound ==
    FallbackReturned =>
        /\ res = Gs1Null <=> (Len(StripWs(arg)) < 20 \/ ~FoundAny(StripWs(arg)))
        /\ res # Gs1Null => CarriesFound(res, StripWs(arg))

\* a payload of 16 characters that holds a GTIN was answered with null
C11_Witness ==
    /\ FallbackReturned
    /\ arg = P_GtinOnly
    /\ GtinPositions(arg) # {}
    /\ res = Gs1Null

\* the positions of t where AI 17, six digits and AI 10 stand before the batch b
BatchSources(t, b) == {i \in BatchPositions(t) : At(t, i + 10, b)}

\* the positions of the 14 digits of the GTIN of t
GtinSpan(t) ==
    IF GtinPositions(t) = {} THEN {}
    ELSE (FirstIn(GtinPositions(t)) + 2)..(FirstIn(GtinPositions(t)) + 15)

\* the batch b of t was read after a 10 that does not lie inside the GTIN
BatchOutsideGtin(t, b) ==
    \E i \in BatchSources(t, b) : {i + 8, i + 9} \cap GtinSpan(t) = {}

\* C12: the GTIN parseConcatenatedGs1 returns is the 14 digits after the first 01 that 14
\* digits follow, and the batch it returns was read after a 10 that stands directly after
\* AI 17 and its six digits and not inside the GTIN; the concatenated example gives
\* GTIN 00350111561014 and such a batch.
C12_BatchNotCutOutOfGtin ==
    FallbackReturned /\ res # Gs1Null =>
        /\ GtinPositions(StripWs(arg)) # {} =>
               res.upc_gtin = SubSeq(StripWs(arg), FirstIn(GtinPositions(StripWs(arg))) + 2,
                                     FirstIn(GtinPositions(StripWs(arg))) + 15)
        /\ res.batch_no # << >> => BatchOutsideGtin(StripWs(arg), res.batch_no)
        /\ arg = P_Concatenated =>
               res.upc_gtin = <<"0","0","3","5","0","1","1","1","5","6","1","0","1","4">>

\* the century of a two-digit year: 19 from 50 on, 20 below
Century(yy) == IF yy[1] \in {"5","6","7","8","9"} THEN <<"1","9">> ELSE <<"2","0">>

\* the date the six digits at position i of t stand for
DateAt(t, i) ==
    Century(SubSeq(t, i, i + 1)) \o SubSeq(t, i, i + 1) \o <<"-">> \o SubSeq(t, i + 2, i + 3)
    \o <<"-">> \o SubSeq(t, i + 4, i + 5)

\* the position of the slash of an expiry
SlashAt(x) == FirstIn({i \in 1..Len(x) : x[i] = "/"})

\* the expiry x is MM/YY with a month from 1 to 12
IsMmYy(x) ==
    /\ x \in MmYyExpiries
    /\ padStart2(SubSeq(x, 1, SlashAt(x) - 1)) \in {padStart2(NumToStr(k)) : k \in 1..12}

\* the year and month MM/YY stands for
MonthOfYear(x) ==
    Century(SubSeq(x, SlashAt(x) + 1, Len(x))) \o SubSeq(x, SlashAt(x) + 1, Len(x))
    \o <<"-">> \o padStart2(SubSeq(x, 1, SlashAt(x) - 1))

\* C13: the pivot year is 50.  parseConcatenatedGs1 turns the yyMMdd of AI 17 into
\* 19yy-MM-dd when yy >= 50 and into 20yy-MM-dd otherwise, for every yy, and
\* normalizeExpiryForMapping and the mapper's normalizeExpiry turn MM/yy with a month
\* from 1 to 12 into 19yy-MM or 20yy-MM by the same rule.
C13_PivotYear50 ==
    /\ FallbackReturned /\ res # Gs1Null /\ ExpiryPositions(StripWs(arg)) # {} =>
           res.expiry = DateAt(StripWs(arg), FirstIn(ExpiryPositions(StripWs(arg))) + 2)
    /\ op \in {"normalizeExpiryForMapping", "normalizeExpiry"} /\ IsMmYy(arg) =>
           res = MonthOfYear(arg)

\* the fallback has read the year 50 as 1950
C13_Witness ==
    /\ FallbackReturned
    /\ arg = P_Year(<<"5","0">>)
    /\ res.expiry = <<"1","9","5","0","-","0","5","-","3","1">>

DecoderReturned == op = "parseGs1ToLabelJson"

EmptyInput(x) == x = Undef \/ \A k \in 1..Len(x) : x[k] \in Space

\* the input as the fallback reads it: the pipe is one character, whitespace is dropped
FallbackText(x) == StripWs([k \in 1..Len(x) |-> IF x[k] = "|" THEN GS ELSE x[k]])

\* the fallback gives a result on the input
FallbackFinds(x) == Len(FallbackText(x)) >= 20 /\ FoundAny(FallbackText(x))

\* the result r holds at least one of GTIN, expiry, batch and serial
HoldsSomething(r) ==
    Truthy(r.upc_gtin) \/ Truthy(r.expiry) \/ Truthy(r.batch_no) \/ Truthy(r.serial)

\* C15: whatever parser.decode does, an exception included, parseGs1ToLabelJson returns
\* null or a result.  It returns null for an input that is empty or not a string; for
\* every other input it returns null only if the fallback finds nothing in the normalised
\* input, so a failure of parser.decode is followed by the fallback, and every result
\* that is not null holds at least one of GTIN, expiry, batch and serial.
C15_FailureSwallowedFallbackTried ==
    DecoderReturned =>
        /\ res = Gs1Null \/ res.found
        /\ EmptyInput(arg) => res = Gs1Null
        /\ ~EmptyInput(arg) /\ FallbackFinds(arg) => res # Gs1Null
        /\ res # Gs1Null => HoldsSomething(res)

\* parser.decode does not decode the concatenated example, and the fallback has read it
C15_Witness ==
    /\ DecoderReturned
    /\ arg = P_Concatenated
    /\ res.batch_no = <<"7","9","8","1","0","5","5">>

\* a normaliser has been called on what it returned
NormalizedTwice == op \in {Again(n) : n \in Normalizers}

\* C16: each normaliser is idempotent: called on what it returned, normalizeExpiryForMapping,
\* the mapper's normalizeExpiry and the registry's normalizeExpiry return the same value again,
\* for the recognised notations and for every other input.
C16_NormalizeIdempotent == [][NormalizedTwice' => res' = res]_vars

\* a normaliser that changed its input has been called again
C16_Witness ==
    /\ NormalizedTwice
    /\ arg \in {SixNotations(3, <<"2","0","2","7">>)[n] : n \in 1..6}
    /\ res = <<"2","0","2","7","-","0","3">>

\* a normaliser has been called once
Normalized == op \in Normalizers

\* C17 as stated: every normaliser returns an expiry of the form YYYY-MM or YYYY-MM-DD
\* exactly as it was given.
C17_CanonicalUnchanged == Normalized /\ IsCanonicalExpiry(arg) => res = arg

\* C17 amended: every normaliser returns an expiry of the form YYYY-MM exactly as it was
\* given; an expiry of the form YYYY-MM-DD is returned as it was given by
\* normalizeExpiryForMapping and by the registry's normalizeExpiry, and cut to its YYYY-MM
\* by the mapper's normalizeExpiry.
C17_CanonicalMonthUnchanged ==
    Normalized /\ IsCanonicalExpiry(arg) =>
        res = IF op = "normalizeExpiry" THEN SubSeq(arg, 1, 7) ELSE arg

\* the mapper's normalizeExpiry has dropped the day of 2027-12-31
C17_Witness ==
    /\ op = "normalizeExpiry"
    /\ arg = <<"2","0","2","7","-","1","2","-","3","1">>
    /\ res = <<"2","0","2","7","-","1","2">>

\* the YYYY-MM that notation n of month k and year y stands for: the year of MM/YY is
\* the one its two digits stand for
StandsFor(k, y, n) ==
    (IF n = 6 THEN Century(SubSeq(y, 3, 4)) \o SubSeq(y, 3, 4) ELSE y)
    \o <<"-">> \o padStart2(NumToStr(k))

\* C18 as stated: every normaliser turns 2027-MAR, MAR 2027, MAR2027, 03/2027, 2027/03 and
\* 03/27 into 2027-03, and likewise every month and year in these six notations.
C18_SixNotationsNormalized ==
    Normalized =>
        \A k \in 1..12, y \in Years, n \in 1..6 :
            arg = SixNotations(k, y)[n] => res = StandsFor(k, y, n)

\* C18 amended: the mapper's normalizeExpiry turns each of the six notations into the
\* YYYY-MM it stands for; normalizeExpiryForMapping does so for all but MM/YYYY, and the
\* registry's normalizeExpiry for all but MM/YY, and each returns that one notation as
\* it was given.
C18_SixNotationsByMapper ==
    Normalized =>
        \A k \in 1..12, y \in Years, n \in 1..6 :
            arg = SixNotations(k, y)[n] =>
                res = IF \/ op = "normalizeExpiryForMapping" /\ n = 4
                         \/ op = "labelFormats.normalizeExpiry" /\ n = 6
                      THEN arg
                      ELSE StandsFor(k, y, n)

\* the mapper's normalizeExpiry has turned 03/27 into 2027-03
C18_Witness ==
    /\ op = "normalizeExpiry"
    /\ arg = <<"0","3","/","2","7">>
    /\ res = <<"2","0","2","7","-","0","3">>

(***************************************************************************)
(* Properties of extractLabelFromOcr.                                      *)
(***************************************************************************)
\* the candidate of the k-th format of the registry on the text of the call
Candidate(k) == extract(LABEL_FORMATS[k], CollapseWs(arg))

\* the number of fields of a candidate that are not empty
Filled(c) == Cardinality({f \in {"batch_no", "lot_no", "expiry"} : c[f] # Undef /\ c[f] # << >>})

\* the candidates of the first n formats
Candidates(n) ==
    SubSeq(<<Candidate(1), Candidate(2), Candidate(3), Candidate(4), Candidate(5),
             Candidate(6)>>, 1, n)

\* the first of the candidates cs that has the most fields
FirstBest(cs) ==
    cs[FirstIn({k \in 1..Len(cs) : \A j \in 1..Len(cs) : Filled(cs[j]) <= Filled(cs[k])})]

\* best and bestScore of r are the candidate c and its number of fields, and nothing when
\* c is empty
IsBest(r, c) ==
    /\ r.bestScore = Filled(c)
    /\ r.best = IF Filled(c) = 0 THEN Out(Undef, Undef, Undef) ELSE c

\* the record r has the lot and the expiry of the candidate c
HasLotAndExpiryOf(r, c) == r.lot_no = OrEmpty(c.lot_no) /\ r.expiry = OrEmpty(c.expiry)

\* the loop of extractLabelFromOcr has run the first n formats
RanFormats(n) == op = "extractLabelFromOcr: formats" /\ res.next = n + 1

\* C19: after each iteration of the loop over LABEL_FORMATS, best is the candidate of the
\* first format, in registry order, whose candidate on the whitespace-collapsed text has
\* the most non-empty fields among the formats run so far (nothing while every candidate
\* is empty), so a later format replaces it only with more fields; what
\* extractLabelFromOcr returns has the lot and the expiry of that candidate, and for
\* "Lot No.: 20054138\nExp.: 2027-02" it has lot_no 20054138 and expiry 2027-02.
C19_FirstBestCandidate ==
    /\ \A n \in 1..Len(LABEL_FORMATS) :
           RanFormats(n) => IsBest(res, FirstBest(Candidates(n)))
    /\ op = "extractLabelFromOcr" =>
           /\ HasLotAndExpiryOf(res, FirstBest(Candidates(Len(LABEL_FORMATS))))
           /\ arg = T_LotNoExp =>
                  /\ res.lot_no = <<"2","0","0","5","4","1","3","8">>
                  /\ res.expiry = <<"2","0","2","7","-","0","2">>

\* every format has run on a text in which the first and the last format read different
\* lots with two fields each, and the first one's candidate is best
C19_Witness ==
    /\ RanFormats(Len(LABEL_FORMATS))
    /\ arg = T_LotNoJoined
    /\ Filled(Candidate(1)) = Filled(Candidate(6))
    /\ Candidate(1) # Candidate(6)
    /\ res.best = Candidate(1)

(***************************************************************************)
(* Statelessness over a session.                                           *)
(***************************************************************************)
SameCall(a, b) == a.fn = b.fn /\ a.input = b.input

\* C20: in a session of calls of parseGs1ToLabelJson, extractLabelFromOcr and
\* scanditFieldsToLabelJson, two calls of the same operation with identical input have
\* returned identical output whatever was called before or between them, every call has
\* left its input as it was given, and LABEL_FORMATS and SCANDIT_FIELD_DEFINITIONS are as
\* the modules exported them.
C20_SameInputSameOutput ==
    /\ \A i, j \in 1..Len(history) :
           SameCall(history[i], history[j]) => history[i].output = history[j].output
    /\ \A i \in 1..Len(history) : history[i].after = history[i].input
    /\ registry.LABEL_FORMATS = LABEL_FORMATS
    /\ registry.SCANDIT_FIELD_DEFINITIONS = SCANDIT_FIELD_DEFINITIONS

\* scanditFieldsToLabelJson has read a serial out of the raw text twice on the same
\* fields, with a call of another operation in between
C20_Witness ==
    /\ Len(history) = 3
    /\ SameCall(history[1], history[3])
    /\ history[1].fn = "scanditFieldsToLabelJson"
    /\ history[2].fn # "scanditFieldsToLabelJson"
    /\ history[1].input = <<F_LotSN>>
    /\ history[3].output.labelJson.serial = <<"1","2","3","4","5","6","7","8">>

(***************************************************************************)
(* The engine at rest: the modules are loaded and no function is running.  *)
(***************************************************************************)
EngineIdle ==
    /\ MapperIdle
    /\ op = "idle"
    /\ arg = NoArg
    /\ res = NotReturned
    /\ Loaded

(***************************************************************************)
(* The dashboard (App of web-dashboard): the effect registers a handler    *)
(* for broadcast-to-dashboard, the handler puts an item for the payload at *)
(* the head of scans, and the cleanup removes the handler.  An item is     *)
(* its payload and its id; the id, built in the code from the clock and a  *)
(* random number, is the number of the broadcast.  parsed, labelJson and   *)
(* ocrGs1Parsed of an item are functions of its payload.                   *)
(***************************************************************************)
MaxScans == 200

MaxBroadcasts == 203

\* the payloads the n-th broadcast may carry
Payloads(n) == {[type |-> IF n % 2 = 1 THEN "barcode" ELSE "ocr", timestamp |-> n]}

\* [item, ...prev].slice(0, 201)
AddScan_keep201(prev, item) == slice(<<item>> \o prev, 0, MaxScans + 1)

\* [item, ...prev].slice(0, 200)
AddScan(prev, item) == slice(<<item>> \o prev, 0, MaxScans)

\* the dashboard is mounted and its effect has run
InitDashboard ==
    /\ EngineIdle
    /\ ScanIdle
    /\ MobileIdle
    /\ ServerIdle
    /\ scans = << >>
    /\ received = 0
    /\ subscribed = TRUE

\* the handler of onBroadcastToDashboard
OnBroadcastToDashboard ==
    /\ subscribed
    /\ received < MaxBroadcasts
    /\ \E payload \in Payloads(received + 1) :
          scans' = AddScan(scans, [payload |-> payload, id |-> received + 1])
    /\ received' = received + 1
    /\ UNCHANGED <<subscribed, besidesDashboard>>

\* the cleanup of the effect
Unsubscribe ==
    /\ subscribed
    /\ subscribed' = FALSE
    /\ UNCHANGED <<scans, received, besidesDashboard>>

NextDashboard ==
    \/ OnBroadcastToDashboard
    \/ Unsubscribe

SpecDashboard == InitDashboard /\ [][NextDashboard]_vars

NewestFirst(list) == \A k \in 1..(Len(list) - 1) : list[k].id > list[k + 1].id

\* the list after a broadcast is the new item followed by the list before it, without
\* its last item when it was full
OldestDropped(before, after, id) ==
    /\ after[1].id = id
    /\ Len(after) = IF Len(before) = 200 THEN 200 ELSE Len(before) + 1
    /\ \A k \in 2..Len(after) : after[k] = before[k - 1]

\* C21: after any sequence of broadcasts the scans list holds at most 200 items, newest
\* first; each broadcast puts its item at the head, and at a full list the oldest item,
\* the last of the list, is the one dropped.
C21_BoundedNewestFirst ==
    /\ [](Len(scans) <= 200 /\ NewestFirst(scans))
    /\ [][received' = received + 1 => OldestDropped(scans, scans', received')]_vars

\* three scans have arrived at a full list
C21_Witness ==
    /\ Len(scans) = 200
    /\ received = 203
    /\ scans[200].id = 4

(***************************************************************************)
(* The batch of the positional fallback.                                   *)
(***************************************************************************)
\* the last position of the alphanumeric characters that stand at position i of t and on
RunEnd(t, i) ==
    CHOOSE e \in i..Len(t) :
        /\ \A k \in i..e : t[k] \in AlNum
        /\ e = Len(t) \/ t[e + 1] \notin AlNum

\* the positions of a 21 behind the batch that starts after AI 17, six digits and AI 10
\* at position i of t, at least one character of the batch before it
SerialAisBehind(t, i) ==
    {q \in (i + 11)..(RunEnd(t, i + 10) - 1) : At(t, q, <<"2","1">>)}

\* the batch positions of t that a 21 follows
TerminatedPositions(t) == {i \in BatchPositions(t) : SerialAisBehind(t, i) # {}}

\* the text between the 10 at position i + 8 of t and the first 21 behind it
BatchUpTo21(t, i) == SubSeq(t, i + 10, FirstIn(SerialAisBehind(t, i)) - 1)

\* the text of t from behind the 10 at position i + 8 to the end of the stream
BatchToTheEnd(t, i) == SubSeq(t, i + 10, RunEnd(t, i + 10))

\* b holds no 21 behind its first character
No21Inside(b) == \A k \in 2..(Len(b) - 1) : ~At(b, k, <<"2","1">>)

BatchFromStream(r, t) ==
    /\ TerminatedPositions(t) # {} =>
           /\ r.batch_no = BatchUpTo21(t, FirstIn(TerminatedPositions(t)))
           /\ No21Inside(r.batch_no)
           /\ At(t, FirstIn(TerminatedPositions(t)) + 10, r.batch_no \o <<"2","1">>)
    /\ (TerminatedPositions(t) = {} /\ BatchPositions(t) # {}) =>
           /\ r.batch_no = BatchToTheEnd(t, FirstIn(BatchPositions(t)))
           /\ AllIn(t, AlNum) => At(t, Len(t) - Len(r.batch_no) + 1, r.batch_no)

TwoDigitsOf(s) == IF Len(s) = 1 THEN <<"0">> \o s ELSE s

\* formatExpiry has been called on a date with a day, a month and a four-digit year
FormattedFullDate ==
    op = "formatExpiry" /\ arg[1] # "null" /\ arg[2] # "null" /\ arg[3] = "2027"

RawFallbackStep == pc = "raw" /\ pc' = "serial"

NonEmpty(s) == s # << >> /\ s # Undef

\* C24: the raw-text fallback only fills gaps: when lot_no and expiry are both non-empty
\* after field mapping and barcode decode it does not run (nothing is parsed and labelJson
\* stays as it is); when it runs, a non-empty lot_no or expiry stays as it is, an empty
\* one becomes what the raw text gave for it, and batch_no, upc_gtin and ref are never
\* changed.
C24_RawFallbackOnlyFillsGaps ==
    [][RawFallbackStep =>
          /\ (NonEmpty(labelJson.lot_no) /\ NonEmpty(labelJson.expiry)) =>
                 (parsed' = parsed /\ labelJson' = labelJson)
          /\ \A k \in {"lot_no", "expiry"} :
                 labelJson'[k] = IF NonEmpty(labelJson[k]) THEN labelJson[k]
                                 ELSE IF NonEmpty(parsed'[k]) THEN parsed'[k]
                                 ELSE labelJson[k]
          /\ \A k \in {"batch_no", "upc_gtin", "ref"} : labelJson'[k] = labelJson[k]]_vars

\* the fallback has run, has filled lot_no from the raw text and has left alone an expiry
\* for which the raw text gave another value
C24_Witness ==
    /\ pc = "serial"
    /\ NonEmpty(parsed.lot_no)
    /\ labelJson.lot_no = parsed.lot_no
    /\ NonEmpty(parsed.expiry)
    /\ NonEmpty(labelJson.expiry)
    /\ labelJson.expiry # parsed.expiry

\* ---------------------------------------------------------------------------
\* LabelCaptureScan: the effect that sets the SDK up, its listener, the
\* stability timer and processLabel, together with the part of the App that
\* shows the component.  A label is known by a name and the number of its
\* fields; the record the engine maps from it is the engine's business.
\* ---------------------------------------------------------------------------

MaxInstances == 2
MaxUpdates == 3

Label(n, k) == [name |-> n, fields |-> k]

\* an element of session.capturedLabels
CapturedLabel(l, c) == [label |-> l, isComplete |-> c]

\* the lists of captured labels the SDK reports
Sessions ==
    { <<CapturedLabel(Label("D", 3), FALSE), CapturedLabel(Label("E", 0), TRUE),
        CapturedLabel(Label("A", 1), TRUE)>>,
      <<CapturedLabel(Label("D", 3), TRUE), CapturedLabel(Label("A", 1), TRUE)>>,
      <<CapturedLabel(Label("E", 0), TRUE), CapturedLabel(Label("D", 3), FALSE)>> }

\* session.capturedLabels.filter((l) => l.isComplete && l.fields.length > 0)
completeLabels(session) ==
    SelectSeq(session, LAMBDA l : l.isComplete /\ l.label.fields > 0)

\* reduce((a, b) => (b.fields.length >= a.fields.length ? b : a))
RECURSIVE reduceLabels(_, _, _)
reduceLabels(ls, a, k) ==
    IF k > Len(ls) THEN a
    ELSE reduceLabels(ls, IF ls[k].label.fields >= a.label.fields THEN ls[k] ELSE a, k + 1)

best(session) ==
    reduceLabels(completeLabels(session), completeLabels(session)[1], 2).label

\* the guard cancelled || resultSent || !labelCapture || !context of an effect
\* instance whose listener exists: labelCapture and context are set by then
Blocked_cancelledOnly(i) == cancelled[i]

Blocked(i) == cancelled[i] \/ resultSent[i]

\* if (cancelled) return; after the awaits of processLabel
CancelledAfterAwait_unchecked(i) == FALSE

CancelledAfterAwait(i) == cancelled[i]

\* !currentPending || best.fields.length >= currentPending.fields.length
Replaces_always(currentPending, b) == TRUE

Replaces(currentPending, b) ==
    currentPending = NoLabel \/ b.fields >= currentPending.fields

\* the timers left by clearTimeout(stabilityTimerRef.current)
ClearTimeout(ts, id) == {t \in ts : t.id # id}

\* the flags of the instances with the flag of instance i set to b
SetFlag(flags, i, b) == [flags EXCEPT ![i] = b]

\* the App has shown the component: it is mounted and its effect runs init(),
\* which waits for the imports
InitScan ==
    /\ EngineIdle
    /\ DashboardIdle
    /\ MobileIdle
    /\ ServerIdle
    /\ showScanditLabel = TRUE
    /\ mounted = TRUE
    /\ continuous \in BOOLEAN
    /\ effect = 1
    /\ phase = <<"import">>
    /\ cancelled = <<FALSE>>
    /\ resultSent = <<FALSE>>
    /\ pendingLabelRef = NoLabel
    /\ stabilityTimerRef = 0
    /\ cooldown = FALSE
    /\ timers = {}
    /\ timerCount = 0
    /\ runs = {}
    /\ updates = 0
    /\ results = << >>
    /\ closes = << >>
    /\ accepted = << >>
    /\ observed = << >>

\* init() after the imports: if (cancelled || !viewRef.current) return
ImportsLoaded(i) ==
    /\ phase[i] = "import"
    /\ phase' = [phase EXCEPT ![i] = IF cancelled[i] THEN "returned" ELSE "setup"]
    /\ UNCHANGED <<showScanditLabel, mounted, continuous, effect, cancelled, resultSent,
                   pendingLabelRef, stabilityTimerRef, cooldown, timers, timerCount, runs,
                   updates, results, closes, accepted, observed, besidesScan>>

\* init() from the creation of the context to labelCapture.addListener
ListenerAdded(i) ==
    /\ phase[i] = "setup"
    /\ phase' = [phase EXCEPT ![i] = "listening"]
    /\ UNCHANGED <<showScanditLabel, mounted, continuous, effect, cancelled, resultSent,
                   pendingLabelRef, stabilityTimerRef, cooldown, timers, timerCount, runs,
                   updates, results, closes, accepted, observed, besidesScan>>

\* an await of init() throws: catch (e) { setError(msg); setLoading(false) }
InitFails(i) ==
    /\ phase[i] = "setup"
    /\ phase' = [phase EXCEPT ![i] = "failed"]
    /\ UNCHANGED <<showScanditLabel, mounted, continuous, effect, cancelled, resultSent,
                   pendingLabelRef, stabilityTimerRef, cooldown, timers, timerCount, runs,
                   updates, results, closes, accepted, observed, besidesScan>>

\* the labels of a list of captured labels
LabelsOf(ls) == {ls[k].label : k \in 1..Len(ls)}

\* the update is taken: it passes the guards of didUpdateSession
Taken(i, session) ==
    /\ ~Blocked(i)
    /\ ~(continuous /\ cooldown)
    /\ completeLabels(session) # << >>

\* didUpdateSession of the listener of effect instance i
DidUpdateSession(i, session) ==
    /\ phase[i] = "listening"
    /\ updates < MaxUpdates
    /\ updates' = updates + 1
    /\ IF Taken(i, session)
       THEN /\ pendingLabelRef' = IF Replaces(pendingLabelRef, best(session))
                                  THEN best(session) ELSE pendingLabelRef
            /\ timers' = ClearTimeout(timers, stabilityTimerRef)
                            \cup {[id |-> timerCount + 1, inst |-> i]}
            /\ stabilityTimerRef' = timerCount + 1
            /\ timerCount' = timerCount + 1
            /\ accepted' = Append(accepted, LabelsOf(completeLabels(session)))
       ELSE UNCHANGED <<pendingLabelRef, timers, stabilityTimerRef, timerCount, accepted>>
    /\ observed' = IF cancelled[i] \/ completeLabels(session) = << >>
                   THEN observed
                   ELSE Append(observed, LabelsOf(completeLabels(session)))
    /\ UNCHANGED <<showScanditLabel, mounted, continuous, effect, phase, cancelled,
                   resultSent, cooldown, runs, results, closes, besidesScan>>

\* a stability timer expires: stabilityTimerRef.current = null; processLabel()
\* up to its first await
TimerFires(t) ==
    /\ t \in timers
    /\ timers' = timers \ {t}
    /\ stabilityTimerRef' = 0
    /\ IF Blocked(t.inst) \/ pendingLabelRef.fields = 0
       THEN UNCHANGED <<resultSent, cooldown, pendingLabelRef, runs, accepted>>
       ELSE /\ resultSent' = SetFlag(resultSent, t.inst, TRUE)
            /\ cooldown' = TRUE
            /\ pendingLabelRef' = NoLabel
            /\ runs' = runs \cup {[inst |-> t.inst, label |-> pendingLabelRef,
                                   timer |-> t.id, taken |-> accepted,
                                   at |-> "setEnabled"]}
            /\ accepted' = << >>
    /\ UNCHANGED <<showScanditLabel, mounted, continuous, effect, phase, cancelled,
                   timerCount, updates, results, closes, observed, besidesScan>>

\* await labelCapture.setEnabled(false) and, when not continuous, the switch
\* of the camera to standby are over: processLabel waits UDI_STABILITY_MS
Disabled(r) ==
    /\ r \in runs
    /\ r.at = "setEnabled"
    /\ runs' = (runs \ {r}) \cup {[r EXCEPT !.at = "setTimeout"]}
    /\ UNCHANGED <<showScanditLabel, mounted, continuous, effect, phase, cancelled,
                   resultSent, pendingLabelRef, stabilityTimerRef, cooldown, timers,
                   timerCount, updates, results, closes, accepted, observed, besidesScan>>

\* processLabel after its awaits: the check of cancelled, onResult and what
\* follows it.  The App's onClose is () => setShowScanditLabel(false).
Resumed(r) ==
    /\ r \in runs
    /\ r.at = "setTimeout"
    /\ runs' = runs \ {r}
    /\ IF CancelledAfterAwait(r.inst)
       THEN UNCHANGED <<results, resultSent, closes, showScanditLabel, observed>>
       ELSE /\ results' = Append(results, [inst |-> r.inst, label |-> r.label,
                                           timer |-> r.timer, taken |-> r.taken,
                                           observed |-> observed])
            /\ observed' = << >>
            /\ IF continuous
               THEN /\ resultSent' = SetFlag(resultSent, r.inst, FALSE)
                    /\ UNCHANGED <<closes, showScanditLabel>>
               ELSE /\ closes' = Append(closes, [by |-> "processLabel", inst |-> r.inst])
                    /\ showScanditLabel' = FALSE
                    /\ UNCHANGED resultSent
    /\ UNCHANGED <<mounted, continuous, effect, phase, cancelled, pendingLabelRef,
                   stabilityTimerRef, cooldown, timers, timerCount, updates, accepted,
                   besidesScan>>

\* CAPTURE_COOLDOWN_MS have passed since lastCaptureTimeRef.current
CooldownOver ==
    /\ cooldown
    /\ cooldown' = FALSE
    /\ UNCHANGED <<showScanditLabel, mounted, continuous, effect, phase, cancelled,
                   resultSent, pendingLabelRef, stabilityTimerRef, timers, timerCount,
                   runs, updates, results, closes, accepted, observed, besidesScan>>

\* the close button: onClick={onClose}
CloseButton ==
    /\ mounted
    /\ showScanditLabel
    /\ showScanditLabel' = FALSE
    /\ closes' = Append(closes, [by |-> "button", inst |-> effect])
    /\ UNCHANGED <<mounted, continuous, effect, phase, cancelled, resultSent,
                   pendingLabelRef, stabilityTimerRef, cooldown, timers, timerCount, runs,
                   updates, results, accepted, observed, besidesScan>>

\* the App renders again.  It passes a new onResult and a new onClose at each
\* render, so the effect is cleaned up and, if the component is still shown,
\* run again; the cleanup sets cancelled and clears the timer of the ref.
Render ==
    /\ mounted
    /\ showScanditLabel => effect < MaxInstances
    /\ timers' = ClearTimeout(timers, stabilityTimerRef)
    /\ stabilityTimerRef' = 0
    /\ IF showScanditLabel
       THEN /\ effect' = effect + 1
            /\ phase' = Append(phase, "import")
            /\ cancelled' = Append(SetFlag(cancelled, effect, TRUE), FALSE)
            /\ resultSent' = Append(resultSent, FALSE)
            /\ UNCHANGED mounted
       ELSE /\ mounted' = FALSE
            /\ cancelled' = SetFlag(cancelled, effect, TRUE)
            /\ UNCHANGED <<effect, phase, resultSent>>
    /\ UNCHANGED <<showScanditLabel, continuous, pendingLabelRef, cooldown, timerCount,
                   runs, updates, results, closes, accepted, observed, besidesScan>>

NextScan ==
    \/ \E i \in 1..effect : ImportsLoaded(i)
    \/ \E i \in 1..effect : ListenerAdded(i)
    \/ \E i \in 1..effect : InitFails(i)
    \/ \E i \in 1..effect : \E session \in Sessions : DidUpdateSession(i, session)
    \/ \E t \in timers : TimerFires(t)
    \/ \E r \in runs : Disabled(r)
    \/ \E r \in runs : Resumed(r)
    \/ CooldownOver
    \/ CloseButton
    \/ Render

SpecScan == InitScan /\ [][NextScan]_vars

\* the step calls onResult
CallsOnResult == Len(results') = Len(results) + 1

\* the effect instance whose processLabel makes the call of this step
Caller == results'[Len(results')].inst

\* C25: once the cleanup of an effect instance has set cancelled, that instance
\* never calls onResult again, and no stability timer set by it is left to fire
\* processLabel: every timer that can still fire belongs to an instance whose
\* cleanup has not run.
C25_NoResultAfterCleanup ==
    /\ [](\A t \in timers : ~cancelled[t.inst])
    /\ [][CallsOnResult => ~cancelled[Caller]]_vars

\* the cleanup of an instance ran while its processLabel waited at an await,
\* and the run ended without a call of onResult
C25_Witness ==
    \E i \in 1..effect :
        /\ cancelled[i]
        /\ resultSent[i]
        /\ \A r \in runs : r.inst # i
        /\ \A k \in 1..Len(results) : results[k].inst # i

\* the timers set in the step
Armed == timers' \ timers

\* the step puts a label into pendingLabelRef
PendingReplaced == pendingLabelRef' # pendingLabelRef /\ pendingLabelRef' # NoLabel

\* the step is a call of onClose by processLabel
ProcessLabelCloses ==
    /\ Len(closes') = Len(closes) + 1
    /\ closes'[Len(closes')].by = "processLabel"

LiveInstances == 1
LiveUpdates == 2

NextScanLive ==
    \/ \E i \in 1..effect : ImportsLoaded(i)
    \/ \E i \in 1..effect : ListenerAdded(i)
    \/ \E i \in 1..effect : InitFails(i)
    \/ \E i \in 1..effect : \E session \in Sessions :
          updates < LiveUpdates /\ DidUpdateSession(i, session)
    \/ \E t \in timers : TimerFires(t)
    \/ \E r \in runs : Disabled(r)
    \/ \E r \in runs : Resumed(r)
    \/ CooldownOver
    \/ CloseButton
    \/ (showScanditLabel => effect < LiveInstances) /\ Render

\* the timer expires and the awaits of processLabel end: the browser runs a
\* timer that is due and the SDK settles its promises
SpecScanLive ==
    /\ InitScan
    /\ [][NextScanLive]_vars
    /\ WF_vars(\E t \in timers : TimerFires(t))
    /\ WF_vars(\E r \in runs : Disabled(r))
    /\ WF_vars(\E r \in runs : Resumed(r))

\* the step starts a run of processLabel that passes the guard
Started == {r \in runs' \ runs : r.at = "setEnabled"}

\* a run of processLabel starts only in the step in which the timer of the
\* ref expires, and no timer is left then
OnlyOnExpiry ==
    \A r \in Started : timers' = {} /\ \E t \in timers : t.id = r.timer

\* the call of onResult that came from timer k passed label l
Emitted(k, l) ==
    \E j \in 1..Len(results) : results[j].timer = k /\ results[j].label = l

\* the label passed has at least as many fields as every label of the updates
AtLeastAll(l, them) ==
    \A j \in 1..Len(them) : \A o \in them[j] : l.fields >= o.fields

\* the labels that can be pending
PendingLabels == UNION {LabelsOf(s) : s \in Sessions}

MaxScanners == 2
MaxOcr == 2
MaxDecodes == 3

\* the session id the App gets from the URL or from the join screen
RoomOfApp == <<"K", "7">>

\* the texts the scanner decodes
DecodedTexts == {"4006381333931", "https://example.org/p/1"}

OcrProviders == {"tesseract", "vision", "paddle"}

\* !sid in onBarcodeSuccess and emitScan
NoSid(s) == s = << >>

\* if (barcodeScanDoneRef.current) return
BarcodeDone_never == FALSE

BarcodeDone == barcodeScanDoneRef

\* cancelled || ocrScanDoneRef.current, of the OCR effect run k
OcrHandled_doneOnly(k) == ocrScanDoneRef

OcrHandled(k) == ocr[k].cancelled \/ ocrScanDoneRef

\* the App is rendered for the first time, with the sid of the URL if any
InitMobile ==
    /\ EngineIdle
    /\ DashboardIdle
    /\ ScanIdle
    /\ ServerIdle
    /\ sid \in {<< >>, RoomOfApp}
    /\ mode = "null"
    /\ rendered = "null"
    /\ ocrProvider = "tesseract"
    /\ scannerRef = 0
    /\ scanners = << >>
    /\ barcodeScanDoneRef = FALSE
    /\ ocrScanDoneRef = FALSE
    /\ ocr = << >>
    /\ decodes = 0
    /\ sent = << >>

\* submitManualSid, or the join scanner has read a session id
SubmitSid ==
    /\ NoSid(sid)
    /\ sid' = RoomOfApp
    /\ UNCHANGED <<mode, rendered, ocrProvider, scannerRef, scanners, barcodeScanDoneRef,
                   ocrScanDoneRef, ocr, decodes, sent, besidesMobile>>

\* the start buttons and the provider buttons are on the screen
IdleScreen == ~NoSid(sid) /\ rendered = "null" /\ mode = "null"

\* startBarcode
StartBarcode ==
    /\ IdleScreen
    /\ Len(scanners) < MaxScanners
    /\ scannerRef = 0
    /\ mode' = "barcode"
    /\ UNCHANGED <<sid, rendered, ocrProvider, scannerRef, scanners, barcodeScanDoneRef,
                   ocrScanDoneRef, ocr, decodes, sent, besidesMobile>>

\* the effect of mode 'barcode': the flag is reset and a scanner is started
BarcodeEffect ==
    /\ rendered = "null"
    /\ mode = "barcode"
    /\ rendered' = "barcode"
    /\ barcodeScanDoneRef' = FALSE
    /\ scanners' = Append(scanners, "starting")
    /\ scannerRef' = Len(scanners) + 1
    /\ UNCHANGED <<sid, mode, ocrProvider, ocrScanDoneRef, ocr, decodes, sent,
                   besidesMobile>>

\* scanner.start(...) is fulfilled: the scanner decodes frames
ScannerStarted(n) ==
    /\ scanners[n] = "starting"
    /\ scanners' = [scanners EXCEPT ![n] = "scanning"]
    /\ UNCHANGED <<sid, mode, rendered, ocrProvider, scannerRef, barcodeScanDoneRef,
                   ocrScanDoneRef, ocr, decodes, sent, besidesMobile>>

\* scanner.start(...) is rejected: .catch sets scannerRef.current = null
ScannerFails(n) ==
    /\ scanners[n] = "starting"
    /\ scanners' = [scanners EXCEPT ![n] = "failed"]
    /\ scannerRef' = 0
    /\ UNCHANGED <<sid, mode, rendered, ocrProvider, barcodeScanDoneRef, ocrScanDoneRef,
                   ocr, decodes, sent, besidesMobile>>

\* the decode callback of scanner n: onBarcodeSuccessRef.current(decodedText)
OnBarcodeSuccess(n, decodedText) ==
    /\ scanners[n] \in {"scanning", "stopping"}
    /\ decodes < MaxDecodes
    /\ decodes' = decodes + 1
    /\ IF NoSid(sid) \/ BarcodeDone
       THEN UNCHANGED <<barcodeScanDoneRef, sent, mode>>
       ELSE /\ barcodeScanDoneRef' = TRUE
            /\ sent' = Append(sent, [type |-> "barcode", value |-> decodedText,
                                     sid |-> sid, from |-> n,
                                     session |-> Len(scanners)])
            /\ mode' = "null"
    /\ UNCHANGED <<sid, rendered, ocrProvider, scannerRef, scanners, ocrScanDoneRef, ocr,
                   besidesMobile>>

\* stopBarcode
StopBarcode ==
    /\ rendered = "barcode"
    /\ mode = "barcode"
    /\ mode' = "null"
    /\ UNCHANGED <<sid, rendered, ocrProvider, scannerRef, scanners, barcodeScanDoneRef,
                   ocrScanDoneRef, ocr, decodes, sent, besidesMobile>>

\* the cleanup of the effect of mode 'barcode': scanner.stop() of the scanner
\* this effect created.  A scanner that decodes goes on until stop() is
\* fulfilled.  What stop() does with a scanner that has not started is the
\* library's business: it is rejected, and .finally clears the ref (refCleared),
\* or it throws, and the ref stays; the scanner may still start afterwards.
BarcodeCleanup(refCleared) ==
    /\ rendered = "barcode"
    /\ mode = "null"
    /\ rendered' = "null"
    /\ IF scanners[Len(scanners)] = "scanning"
       THEN /\ scanners' = [scanners EXCEPT ![Len(scanners)] = "stopping"]
            /\ UNCHANGED scannerRef
       ELSE /\ scannerRef' = IF refCleared THEN 0 ELSE scannerRef
            /\ UNCHANGED scanners
    /\ UNCHANGED <<sid, mode, ocrProvider, barcodeScanDoneRef, ocrScanDoneRef, ocr,
                   decodes, sent, besidesMobile>>

\* scanner.stop() is fulfilled: .finally sets scannerRef.current = null
ScannerStopped(n) ==
    /\ scanners[n] = "stopping"
    /\ scanners' = [scanners EXCEPT ![n] = "stopped"]
    /\ scannerRef' = 0
    /\ UNCHANGED <<sid, mode, rendered, ocrProvider, barcodeScanDoneRef, ocrScanDoneRef,
                   ocr, decodes, sent, besidesMobile>>

\* the provider buttons
SetOcrProvider(p) ==
    /\ IdleScreen
    /\ ocrProvider' = p
    /\ UNCHANGED <<sid, mode, rendered, scannerRef, scanners, barcodeScanDoneRef,
                   ocrScanDoneRef, ocr, decodes, sent, besidesMobile>>

\* startOcr
StartOcr ==
    /\ IdleScreen
    /\ Len(ocr) < MaxOcr
    /\ mode' = "ocr"
    /\ UNCHANGED <<sid, rendered, ocrProvider, scannerRef, scanners, barcodeScanDoneRef,
                   ocrScanDoneRef, ocr, decodes, sent, besidesMobile>>

\* the effect of mode 'ocr': if (mode !== 'ocr' || !sid) return; the flag is
\* reset and the camera is asked for
OcrEffect ==
    /\ rendered = "null"
    /\ mode = "ocr"
    /\ rendered' = "ocr"
    /\ IF NoSid(sid)
       THEN UNCHANGED <<ocrScanDoneRef, ocr>>
       ELSE /\ ocrScanDoneRef' = FALSE
            /\ ocr' = Append(ocr, [cancelled |-> FALSE, provider |-> ocrProvider,
                                   at |-> "getUserMedia"])
    /\ UNCHANGED <<sid, mode, ocrProvider, scannerRef, scanners, barcodeScanDoneRef,
                   decodes, sent, besidesMobile>>

\* stopOcr
StopOcr ==
    /\ rendered = "ocr"
    /\ mode = "ocr"
    /\ mode' = "null"
    /\ UNCHANGED <<sid, rendered, ocrProvider, scannerRef, scanners, barcodeScanDoneRef,
                   ocrScanDoneRef, ocr, decodes, sent, besidesMobile>>

\* the cleanup of the effect of mode 'ocr': cancelled = true
OcrCleanup ==
    /\ rendered = "ocr"
    /\ mode = "null"
    /\ rendered' = "null"
    /\ ocr' = IF ocr = << >> THEN ocr ELSE [ocr EXCEPT ![Len(ocr)].cancelled = TRUE]
    /\ UNCHANGED <<sid, mode, ocrProvider, scannerRef, scanners, barcodeScanDoneRef,
                   ocrScanDoneRef, decodes, sent, besidesMobile>>

\* getUserMedia is settled; when it gave a stream, startWhenReady waits for
\* the video and calls runCapture, which goes on to canvas.toBlob unless
\* cancelled || recognizeInProgress || ocrScanDoneRef.current
CameraSettled(k, stream) ==
    /\ ocr[k].at = "getUserMedia"
    /\ ocr' = [ocr EXCEPT ![k].at = IF stream /\ ~OcrHandled(k) THEN "toBlob" ELSE "ended"]
    /\ UNCHANGED <<sid, mode, rendered, ocrProvider, scannerRef, scanners,
                   barcodeScanDoneRef, ocrScanDoneRef, decodes, sent, besidesMobile>>

\* the callback of canvas.toBlob: if (cancelled || !blob) return; then the
\* FileReader for the cloud providers, worker.recognize for Tesseract
BlobReady(k, blob) ==
    /\ ocr[k].at = "toBlob"
    /\ ocr' = [ocr EXCEPT ![k].at =
                  IF ocr[k].cancelled \/ ~blob THEN "ended"
                  ELSE IF ocr[k].provider = "tesseract" THEN "recognize"
                  ELSE "readAsDataURL"]
    /\ UNCHANGED <<sid, mode, rendered, ocrProvider, scannerRef, scanners,
                   barcodeScanDoneRef, ocrScanDoneRef, decodes, sent, besidesMobile>>

\* reader.onload starts the fetch; reader.onerror ends the session
ReaderSettled(k, loaded) ==
    /\ ocr[k].at = "readAsDataURL"
    /\ ocr' = [ocr EXCEPT ![k].at = IF loaded THEN "recognize" ELSE "failed"]
    /\ mode' = IF ~loaded /\ ~ocr[k].cancelled THEN "null" ELSE mode
    /\ UNCHANGED <<sid, rendered, ocrProvider, scannerRef, scanners, barcodeScanDoneRef,
                   ocrScanDoneRef, decodes, sent, besidesMobile>>

\* what the provider can answer: a text, a body with the member error (cloud
\* providers), or a rejection (of the fetch, of r.json(), of the worker)
Answers(provider) ==
    IF provider = "tesseract" THEN {"text", "rejected"} ELSE {"text", "error", "rejected"}

\* the handlers behind fetch(...) and worker.recognize(blob), with onOcrText
\* and emitScan
ProviderAnswers(k, answer) ==
    /\ ocr[k].at = "recognize"
    /\ answer \in Answers(ocr[k].provider)
    /\ IF answer = "rejected"
       THEN /\ ocr' = [ocr EXCEPT ![k].at = "failed"]
            /\ mode' = IF ocr[k].cancelled THEN mode ELSE "null"
            /\ UNCHANGED <<ocrScanDoneRef, sent>>
       ELSE IF OcrHandled(k)
       THEN /\ ocr' = [ocr EXCEPT ![k].at = "dropped"]
            /\ UNCHANGED <<mode, ocrScanDoneRef, sent>>
       ELSE IF answer = "error"
       THEN /\ ocr' = [ocr EXCEPT ![k].at = "failed"]
            /\ mode' = "null"
            /\ UNCHANGED <<ocrScanDoneRef, sent>>
       ELSE /\ ocr' = [ocr EXCEPT ![k].at = "answered"]
            /\ ocrScanDoneRef' = TRUE
            /\ sent' = IF NoSid(sid) THEN sent
                       ELSE Append(sent, [type |-> "ocr", value |-> "labelJson",
                                          sid |-> sid, from |-> k, session |-> Len(ocr)])
            /\ mode' = "null"
    /\ UNCHANGED <<sid, rendered, ocrProvider, scannerRef, scanners, barcodeScanDoneRef,
                   decodes, besidesMobile>>

\* barcode scanning
NextBarcode ==
    \/ SubmitSid
    \/ StartBarcode
    \/ BarcodeEffect
    \/ \E n \in 1..Len(scanners) : ScannerStarted(n)
    \/ \E n \in 1..Len(scanners) : ScannerFails(n)
    \/ \E n \in 1..Len(scanners) : \E decodedText \in DecodedTexts :
          OnBarcodeSuccess(n, decodedText)
    \/ StopBarcode
    \/ \E refCleared \in BOOLEAN : BarcodeCleanup(refCleared)
    \/ \E n \in 1..Len(scanners) : ScannerStopped(n)

SpecBarcode == InitMobile /\ [][NextBarcode]_vars

\* OCR capture
NextOcr ==
    \/ SubmitSid
    \/ \E p \in OcrProviders : SetOcrProvider(p)
    \/ StartOcr
    \/ OcrEffect
    \/ StopOcr
    \/ OcrCleanup
    \/ \E k \in 1..Len(ocr) : \E stream \in BOOLEAN : CameraSettled(k, stream)
    \/ \E k \in 1..Len(ocr) : \E blob \in BOOLEAN : BlobReady(k, blob)
    \/ \E k \in 1..Len(ocr) : \E loaded \in BOOLEAN : ReaderSettled(k, loaded)
    \/ \E k \in 1..Len(ocr) : \E answer \in {"text", "error", "rejected"} :
          ProviderAnswers(k, answer)

SpecOcr == InitMobile /\ [][NextOcr]_vars

\* the barcode scans sent in barcode session s, the s-th time the effect of
\* mode 'barcode' ran
BarcodeScans(s) ==
    {j \in 1..Len(sent) : sent[j].type = "barcode" /\ sent[j].session = s}

\* the step passes a scan to sendScan
Sends == Len(sent') = Len(sent) + 1

\* C28: in one barcode session, from one run of the effect of mode 'barcode'
\* to the next, at most one barcode scan is sent, however often the decode
\* callback is called, and a scan is sent only while a session id is set.
C28_SingleBarcodeScan ==
    /\ [](\A s \in 1..Len(scanners) : Cardinality(BarcodeScans(s)) <= 1)
    /\ [][Sends => sid # << >> /\ sent'[Len(sent')].sid = sid]_vars

\* the decode callback was called three times in the first session, whose
\* scanner has not stopped yet, and one scan was sent
C28_Witness ==
    /\ Len(scanners) = 1
    /\ scanners[1] = "stopping"
    /\ decodes >= 3
    /\ Cardinality(BarcodeScans(1)) = 1

\* the OCR scans sent by run k of the OCR effect
OcrScans(k) ==
    {j \in 1..Len(sent) : sent[j].type = "ocr" /\ sent[j].from = k}

\* the run of the OCR effect whose handler makes the step
Answering(k) == ocr[k].at = "recognize" /\ ocr'[k].at # "recognize"

\* C29: in one OCR session, one run of the effect of mode 'ocr', at most one
\* scan is emitted; an answer of the provider that arrives after the cleanup
\* of that run, or after a result was handled, emits nothing; and an error of
\* the provider emits nothing and, unless the session was cancelled before,
\* ends it by setting mode to null.
C29_SingleOcrScan ==
    /\ [](\A k \in 1..Len(ocr) : Cardinality(OcrScans(k)) <= 1)
    /\ [][\A k \in 1..Len(ocr) :
            /\ Answering(k) /\ (ocr[k].cancelled \/ ocrScanDoneRef)
                  => sent' = sent /\ mode' = mode
            /\ Answering(k) /\ ocr'[k].at = "failed"
                  => sent' = sent /\ (~ocr[k].cancelled => mode' = "null")]_vars

\* the first session was stopped while its provider worked and its answer was
\* dropped; the second session emitted a scan
C29_Witness ==
    /\ Len(ocr) = 2
    /\ ocr[1].cancelled
    /\ ocr[1].at = "dropped"
    /\ OcrScans(1) = {}
    /\ Cardinality(OcrScans(2)) = 1

\* ---------------------------------------------------------------------------
\* The socket server: the handlers of join-room and send-scan.  A sid of a
\* payload is a value of any type; it is known here by its type and, for a
\* string, its characters.
\* ---------------------------------------------------------------------------

MaxRequests == 4

\* the sockets connected to the server
Sockets == {"dashboard", "mobile", "other"}

Str(s) == [kind |-> "string", text |-> s]

\* payload?.sid of the payloads the clients send
SidValues ==
    { [kind |-> "undefined", text |-> << >>],
      [kind |-> "number", text |-> <<"7">>],
      Str(<< >>),
      Str(<<" ", "\t">>),
      Str(<<"K", "7">>),
      Str(<<" ", "K", "7", "\n">>),
      Str(<<"Q", "2">>) }

\* the members type, value, raw and timestamp of the payload of a send-scan
ScanOfRequest(n) ==
    [type |-> IF n % 2 = 1 THEN "barcode" ELSE "ocr", value |-> <<"4", "0", "0", "6">>,
     raw |-> <<"4", "0", "0", "6">>, timestamp |-> n]

\* !sid || typeof sid !== 'string', for the values above
NotAString(v) == v.kind = "undefined" \/ v.text = << >> \/ v.kind # "string"

\* const room = String(sid).trim()
RoomOf_untrimmed(v) == v.text

RoomOf(v) == trim(v.text)

\* if (!sid || typeof sid !== 'string') return; ...; if (!room) return
Ignored(v) == NotAString(v) \/ RoomOf(v) = << >>

\* io.to(room): the sockets that are in the room
InRoom(room) == {s \in Sockets : <<s, room>> \in members}

InitServer ==
    /\ EngineIdle
    /\ DashboardIdle
    /\ ScanIdle
    /\ MobileIdle
    /\ members = {}
    /\ joins = {}
    /\ relayed = << >>
    /\ requests = 0

\* socket.on(JOIN_ROOM, (payload) => ...)
OnJoinRoom(socket, v) ==
    /\ requests < MaxRequests
    /\ requests' = requests + 1
    /\ joins' = joins \cup {<<socket, v>>}
    /\ members' = IF Ignored(v) THEN members ELSE members \cup {<<socket, RoomOf(v)>>}
    /\ UNCHANGED <<relayed, besidesServer>>

\* socket.on(SEND_SCAN, (payload) => ...)
OnSendScan(socket, v) ==
    /\ requests < MaxRequests
    /\ requests' = requests + 1
    /\ relayed' = IF Ignored(v) THEN relayed
                  ELSE Append(relayed,
                              [event |-> [type |-> ScanOfRequest(requests').type,
                                          value |-> ScanOfRequest(requests').value,
                                          raw |-> ScanOfRequest(requests').raw,
                                          timestamp |-> ScanOfRequest(requests').timestamp,
                                          sid |-> RoomOf(v)],
                               to |-> InRoom(RoomOf(v)),
                               request |-> [sid |-> v, scan |-> ScanOfRequest(requests')]])
    /\ UNCHANGED <<members, joins, besidesServer>>

NextServer ==
    \/ \E socket \in Sockets : \E v \in SidValues : OnJoinRoom(socket, v)
    \/ \E socket \in Sockets : \E v \in SidValues : OnSendScan(socket, v)

SpecServer == InitServer /\ [][NextServer]_vars

\* the sid is missing, not a string, or made of white space only
Blank(v) == v.kind # "string" \/ \A k \in 1..Len(v.text) : v.text[k] \in Space

\* the sockets that have asked to join the room with a sid that trims to it
JoinedBefore(room) ==
    {s \in Sockets : \E j \in joins : j[1] = s /\ ~Blank(j[2]) /\ trim(j[2].text) = room}

\* the step broadcasts
Relays == Len(relayed') = Len(relayed) + 1

\* the broadcast of the step
Relayed == relayed'[Len(relayed')]

\* C30: a send-scan with session id S is broadcast, with its type, value, raw
\* and timestamp and with sid = trim(S), to exactly the sockets that joined room
\* trim(S) before; a join-room or send-scan whose sid is missing, not a string
\* or blank after trimming changes no room and broadcasts nothing.
C30_RelayInsideRoom ==
    /\ [][Relays =>
            /\ ~Blank(Relayed.request.sid)
            /\ Relayed.to = JoinedBefore(trim(Relayed.request.sid.text))
            /\ Relayed.event = [type |-> Relayed.request.scan.type,
                                value |-> Relayed.request.scan.value,
                                raw |-> Relayed.request.scan.raw,
                                timestamp |-> Relayed.request.scan.timestamp,
                                sid |-> trim(Relayed.request.sid.text)]
            /\ members' = members]_vars
    /\ [][\A j \in joins' \ joins :
            /\ relayed' = relayed
            /\ Blank(j[2]) => members' = members]_vars
    /\ [](\A m \in members : m[2] # << >> /\ m[2] = trim(m[2]))

\* a scan sent with sid ' K7\n' went to the two sockets that joined K7, one of
\* them with the padded sid, and not to the socket that joined Q2
C30_Witness ==
    \E k \in 1..Len(relayed) :
        /\ relayed[k].request.sid.text = <<" ", "K", "7", "\n">>
        /\ relayed[k].to = {"dashboard", "mobile"}
        /\ <<"other", <<"Q", "2">>>> \in members
        /\ <<"mobile", Str(<<" ", "K", "7", "\n">>)>> \in joins

====
